---- MODULE Spec2Model ----
(***************************************************************************)
(* Model of datalad-slurm: the open_jobs ledger (sqlite table), the        *)
(* schedule operation (schedule.py run_command), the finish operation      *)
(* (finish.py Finish.__call__ / finish_cmd) and the scheduler status       *)
(* resolver (finish.py get_job_status).                                    *)
(*                                                                         *)
(* External collaborators are modelled at their interface: the batch       *)
(* scheduler (sbatch / scontrol / sacct), the working tree and datalad     *)
(* Save, and the git history.                                              *)
(***************************************************************************)
EXTENDS Integers, Sequences, FiniteSets, TLC

\* ---------------------------------------------------------------- bounds
MaxJobs == 2        \* scheduler submissions accepted in one behaviour
MaxTasks == 2       \* tasks of one (array) job

\* ----------------------------------------------------------------- paths
\* A path is a triple <<kind, job, task>>.
UserPath(n) == <<"user", n, 0>>
PathA == UserPath(1)
PathB == UserPath(2)
StdoutPath(j, t) == <<"slurm-out", j, t>>
SharedLog == <<"log", 0, 0>>
EnvPath(j) == <<"slurm-job-env", j, 0>>
ArrayInfoPath(j) == <<"array-job-info", j, 0>>

Paths ==
    {PathA, PathB}
        \cup {StdoutPath(j, t) : j \in 1..MaxJobs, t \in 0..MaxTasks}
        \cup {SharedLog}
        \cup {EnvPath(j) : j \in 1..MaxJobs}
        \cup {ArrayInfoPath(j) : j \in 1..MaxJobs}

SetOf(s) == {s[i] : i \in DOMAIN s}

\* An output given as a pattern with a wildcard, and the files a path or
\* pattern names.
Star == <<"user", 0, 0>>
Matches(p) == IF p = Star THEN <<PathA, PathB>> ELSE <<p>>
FilesOf(outputs) == UNION {SetOf(Matches(outputs[i])) : i \in DOMAIN outputs}

\* The -o/--output lists a caller of schedule may pass.
OutputChoices == {<<>>, <<PathA>>, <<PathB>>, <<PathA, PathB>>}

\* ------------------------------------------------------- scheduler states
RawStates ==
    {"PENDING", "RUNNING", "COMPLETED", "FAILED", "TIMEOUT",
     "CANCELLED by 1000"}

\* Scheduler state strings that contain the substring CANCELLED.
ContainsCancelled == {"CANCELLED", "CANCELLED by 1000", "CANCELLED+"}

\* ---------------------------------------------------------------- branches
\* What is checked out: a branch, the adjusted branch of main, or a commit
\* (no branch is active).
AdjustedMain == "adjusted/main(unlocked)"
Detached == ""
Branches == {"main", "dev", AdjustedMain}
Heads == Branches \cup {Detached}

\* AnnexRepo.get_corresponding_branch: the branch an adjusted branch
\* adjusts, and nothing for any other branch.
get_corresponding_branch(checked_out) ==
    IF checked_out = AdjustedMain THEN "main" ELSE ""

\* GitRepo.get_active_branch: the branch checked out, if any.
get_active_branch(checked_out) == checked_out

\* A store name that leaves the branch out.
db_name_dataset(checked_out) == <<"dsid", "", ".db">>

\* finish.py remove_from_database, lines 562-564 (get_scheduled_commits,
\* lines 235-238, likewise): the name of the store file,
\*   branch = get_corresponding_branch() or get_active_branch() or "HEAD"
\*   db_name = f"{dset.id}_{branch}.db"
db_name(checked_out) ==
    LET branch == IF get_corresponding_branch(checked_out) # ""
                      THEN get_corresponding_branch(checked_out)
                  ELSE IF get_active_branch(checked_out) # ""
                      THEN get_active_branch(checked_out)
                  ELSE "HEAD"
    IN  <<"dsid", branch, ".db">>

DbNames == {db_name(checked_out) : checked_out \in Heads}

\* A store file that does not exist yet.
NoStore == [ledger |-> <<>>, tableExists |-> FALSE]

VARIABLES
    head,         \* the branch checked out, or Detached
    parked,       \* the store files other than the one named for `head`
    ledger,       \* rows of the open_jobs table of the store named for
                  \* `head`, in rowid order
    tableExists,  \* whether CREATE TABLE open_jobs has run in that store
    history,      \* commits of the active branch, oldest first
    worktree,     \* path -> "absent" | "dirty" | "clean"
    sched,        \* scheduler: job id -> [states, stdio, outs]
    call,         \* the last invocation: what it was and what it returned
    closed        \* ghost: the job ids finish has finalized or force-closed

vars ==
    <<ledger, tableExists, history, worktree, sched, call, closed, head, parked>>

NoCall == [op |-> "none"]

Init ==
    /\ ledger = <<>>
    /\ tableExists = FALSE
    /\ history = <<>>
    /\ worktree = [p \in Paths |-> "absent"]
    /\ sched = <<>>
    /\ call = NoCall
    /\ closed = {}
    /\ head = "main"
    /\ parked = [name \in DbNames |-> NoStore]


\* ------------------------------------------------------------- the ledger
\* Opening the per-branch store. Returns a handle, or no handle when the
\* store cannot be opened; it never raises.
connect_to_database(db_ok) == IF db_ok THEN "handle" ELSE "none"

\* check_output_conflict comparing the candidate outputs with the scheduler
\* files of each row only, not with everything the row records.
check_output_conflict_slurm_only(rows, exists, outputs) ==
    IF ~exists THEN <<>>
    ELSE LET Hit(r) == SetOf(outputs) \cap SetOf(r.slurm_outputs) # {}
             hits == SelectSeq(rows, Hit)
         IN  [i \in 1..Len(hits) |-> hits[i].slurm_job_id]

\* check_output_conflict stopping at the first row that collides.
check_output_conflict_first(rows, exists, outputs) ==
    IF ~exists THEN <<>>
    ELSE LET Hit(r) == SetOf(outputs) \cap SetOf(r.outputs) # {}
             hits == SelectSeq(rows, Hit)
         IN  IF hits = <<>> THEN <<>> ELSE <<hits[1].slurm_job_id>>

\* schedule.py check_output_conflict: the ids of the open jobs whose
\* recorded outputs share a path with `outputs`, in row order. A missing
\* table is an sqlite3.Error, which yields no conflicts.
check_output_conflict(rows, exists, outputs) ==
    IF ~exists THEN <<>>
    ELSE LET Hit(r) == SetOf(outputs) \cap SetOf(r.outputs) # {}
             hits == SelectSeq(rows, Hit)
         IN  [i \in 1..Len(hits) |-> hits[i].slurm_job_id]

\* schedule.py add_to_database: CREATE TABLE IF NOT EXISTS, then one INSERT.
\* The table has no key: the row is appended whatever rows exist.
add_to_database(rows, run_info, msg) ==
    Append(rows,
           [slurm_job_id |-> run_info.slurm_job_id,
            message |-> msg,
            chain |-> run_info.chain,
            cmd |-> run_info.cmd,
            outputs |-> run_info.outputs,
            slurm_outputs |-> run_info.slurm_run_outputs])

\* remove_from_database with a WHERE clause that matches no row.
remove_from_database_none(rows, run_info) == rows

\* finish.py remove_from_database: DELETE ... WHERE slurm_job_id = ?
remove_from_database(rows, run_info) ==
    LET Keep(r) == r.slurm_job_id # run_info.slurm_job_id
    IN  SelectSeq(rows, Keep)

\* ----------------------------------------------------------- the scheduler
\* The task ids of a job: a plain job is its own single task (0), an array
\* job has the tasks 1..n.
TaskIds(ntasks) ==
    IF ntasks = 1 THEN <<0>> ELSE [i \in 1..ntasks |-> i]

\* schedule.py get_slurm_output_files: one StdOut path per task (StdErr is
\* the same file and is not repeated) and the environment dump written
\* next to the first task's StdOut.
get_slurm_output_files(job_id, ntasks, stdio) ==
    LET ids == TaskIds(ntasks)
    IN  [paths |-> [i \in 1..Len(ids) |->
                        IF stdio = "shared" THEN SharedLog
                        ELSE StdoutPath(job_id, ids[i])],
         env |-> EnvPath(job_id)]

\* GlobbedPaths(..., expand=True).paths: the files that match the patterns,
\* pattern after pattern.
RECURSIVE Globbed(_, _)
Globbed(tree, patterns) ==
    LET Exists(p) == tree[p] # "absent"
    IN  IF patterns = <<>> THEN <<>>
        ELSE SelectSeq(Matches(Head(patterns)), Exists)
                 \o Globbed(tree, Tail(patterns))

\* ---------------------------------------------------------------- schedule
\* The -m/--message of a call: no message, or a line of text.
NoMessage == <<>>
UserNote == <<<<"note", 0, "">>>>

\* rerun_info: nothing on a first submission, the record of the job that is
\* submitted again on a replay.
NoRerun == [slurm_job_id |-> 0, chain |-> <<>>]
RerunInfo == [slurm_job_id |-> 7, chain |-> <<"c0">>]

\* schedule_msg that labels every envelope SCHEDULE.
schedule_msg_always(rerun_info) == "SCHEDULE"

\* schedule.py run_command, lines 765-769: the kind of the envelope.
schedule_msg(rerun_info) ==
    IF rerun_info # NoRerun THEN "RESCHEDULE" ELSE "SCHEDULE"

\* The lines schedule appends to the message of its envelope.
SubmittedLine(job_id) == <<"Submitted batch job", job_id, "Pending">>
ResubmissionLine(slurm_id_old) == <<"Re-submission of job", slurm_id_old, "">>

\* schedule.py run_command, lines 780-789: the message of the envelope.
compose_message(message, job_id, rerun_info) ==
    message \o <<SubmittedLine(job_id)>>
        \o (IF rerun_info # NoRerun
            THEN <<ResubmissionLine(rerun_info.slurm_job_id)>>
            ELSE <<>>)

\* A wildcard test that finds no wildcard.
HasWildcard_never(outputs) == FALSE

\* schedule.py run_command, line 570: an output that contains one of the
\* characters * ? [ ] ! ^ { }.
HasWildcard(outputs) == \E i \in DOMAIN outputs : outputs[i] = Star

\* schedule.py _execute_slurm_command: the exit code handed to run_command.
\* It is set in the `except subprocess.SubprocessError` branch only, and
\* subprocess.run, called without check and without timeout, raises no such
\* error: the exit status of the submitted command is not read.
execute_exitcode(exit_code) == 0

\* schedule.py run_command, for a call c: the state and the results the call
\* ends with.
\*   c.outputs        -o/--output          c.check_outputs  --check-outputs
\*   c.expand         --expand outputs     c.dry_run        --dry-run
\*   c.message        -m/--message         c.rerun_info     the replayed record
\*   c.allow_wildcard_outputs              --allow-wildcard-outputs
\*   c.db_check       the store opens for the conflict check
\*   c.accepted       the output of sbatch has `Submitted batch job <id>`
\*   c.exit_code      the exit status of sbatch
\*   c.ntasks, c.stdio  the shape of the submitted job
\*   c.scontrol_ok    `scontrol show job` succeeds
\*   c.db_insert      the store opens for the insert
run_command(c) ==
    LET outputs == c.outputs
        declared == IF c.expand THEN Globbed(worktree, outputs) ELSE outputs
        conflicts == check_output_conflict(ledger, tableExists, declared)
        job_id == Len(sched) + 1
        cmd_exitcode == execute_exitcode(c.exit_code)
        slurm == get_slurm_output_files(job_id, c.ntasks, c.stdio)
        slurm_outputs == Append(slurm.paths, slurm.env)
        tree1 == [worktree EXCEPT ![slurm.env] = "dirty"]
        run_info ==
            [cmd |-> "sbatch",
             chain |-> c.rerun_info.chain,
             outputs |-> (IF c.expand THEN Globbed(tree1, outputs)
                          ELSE outputs) \o slurm_outputs,
             slurm_run_outputs |-> slurm_outputs,
             slurm_job_id |-> job_id]
        msg == [kind |-> schedule_msg(c.rerun_info),
                message |-> compose_message(c.message, job_id, c.rerun_info),
                record |-> run_info]
        expected_exit == 0
        status == IF cmd_exitcode # 0 /\ expected_exit # cmd_exitcode
                  THEN "error" ELSE "ok"
        sched1 == Append(sched,
                         [states |-> [i \in 1..c.ntasks |-> "PENDING"],
                          stdio |-> c.stdio,
                          outs |-> FilesOf(outputs)])
        same == [ledger |-> ledger, tableExists |-> tableExists,
                 worktree |-> worktree, sched |-> sched, job |-> 0,
                 conflicts |-> <<>>, results |-> <<>>, raised |-> FALSE]
    IN  IF c.rerun_info = NoRerun /\ ~c.allow_wildcard_outputs
           /\ HasWildcard(outputs)
            THEN [same EXCEPT !.results = <<"impossible">>]
        ELSE IF c.dry_run
            THEN [same EXCEPT !.results = <<"ok">>]
        ELSE IF c.check_outputs /\ connect_to_database(c.db_check) = "none"
            THEN [same EXCEPT !.results = <<"error">>]
        ELSE IF c.check_outputs /\ conflicts # <<>>
            THEN [same EXCEPT !.results = <<"error">>,
                              !.conflicts = conflicts]
        ELSE IF ~c.accepted
            \* _execute_slurm_command returns the unbound job_id
            THEN [same EXCEPT !.results = <<>>, !.raised = TRUE]
        ELSE IF ~c.scontrol_ok
            THEN [same EXCEPT !.results = <<>>, !.raised = TRUE,
                              !.sched = sched1, !.job = job_id]
        ELSE IF connect_to_database(c.db_insert) = "none"
            THEN [same EXCEPT !.results = <<"error">>,
                              !.sched = sched1, !.job = job_id,
                              !.worktree = tree1]
        ELSE [same EXCEPT !.results = <<status>>,
                          !.sched = sched1, !.job = job_id,
                          !.worktree = tree1,
                          !.tableExists = TRUE,
                          !.ledger = add_to_database(ledger, run_info, msg)]

\* The calls of schedule are records of its arguments and of the answers of
\* its collaborators. A value the call never reads is fixed.
\* Calls that end before sbatch accepts a job: a dry run, and a submission
\* that sbatch does not accept.
StoppedCalls(outs, checks, expands) ==
    [outputs : outs, check_outputs : {TRUE}, expand : {FALSE},
     dry_run : {TRUE}, db_check : {TRUE}, accepted : {TRUE},
     ntasks : {1}, stdio : {"default"},
     scontrol_ok : {TRUE}, db_insert : {TRUE},
     message : {NoMessage}, rerun_info : {NoRerun},
     allow_wildcard_outputs : {FALSE}, exit_code : {0}]
    \cup
    [outputs : outs, check_outputs : checks, expand : expands,
     dry_run : {FALSE}, db_check : {TRUE}, accepted : {FALSE},
     ntasks : {1}, stdio : {"default"},
     scontrol_ok : {TRUE}, db_insert : {TRUE},
     message : {NoMessage}, rerun_info : {NoRerun},
     allow_wildcard_outputs : {FALSE}, exit_code : {0}]

\* Calls whose conflict check cannot open the store.
StoreClosedCalls(outs) ==
    [outputs : outs, check_outputs : {TRUE}, expand : {FALSE},
     dry_run : {FALSE}, db_check : {FALSE}, accepted : {TRUE},
     ntasks : {1}, stdio : {"default"},
     scontrol_ok : {TRUE}, db_insert : {TRUE},
     message : {NoMessage}, rerun_info : {NoRerun},
     allow_wildcard_outputs : {FALSE}, exit_code : {0}]

\* Calls whose job sbatch accepts, unless the conflict check stops them.
AcceptedCalls(outs, checks, expands, tasks, stdios, inserts) ==
    [outputs : outs, check_outputs : checks, expand : expands,
     dry_run : {FALSE}, db_check : {TRUE}, accepted : {TRUE},
     ntasks : tasks, stdio : stdios,
     scontrol_ok : {TRUE}, db_insert : inserts,
     message : {NoMessage}, rerun_info : {NoRerun},
     allow_wildcard_outputs : {FALSE}, exit_code : {0}]

\* Accepted calls whose `scontrol show job` fails.
ScontrolFailedCalls(outs, checks, expands, tasks, stdios) ==
    [outputs : outs, check_outputs : checks, expand : expands,
     dry_run : {FALSE}, db_check : {TRUE}, accepted : {TRUE},
     ntasks : tasks, stdio : stdios,
     scontrol_ok : {FALSE}, db_insert : {TRUE},
     message : {NoMessage}, rerun_info : {NoRerun},
     allow_wildcard_outputs : {FALSE}, exit_code : {0}]

Stdios == {"default", "shared"}

\* Every call, for jobs that write their logs as `stdios` says.
ScheduleCallsOf(stdios) ==
    StoppedCalls(OutputChoices, BOOLEAN, BOOLEAN)
        \cup StoreClosedCalls(OutputChoices)
        \cup AcceptedCalls(OutputChoices, BOOLEAN, BOOLEAN, 1..MaxTasks,
                           stdios, BOOLEAN)
        \cup ScontrolFailedCalls(OutputChoices, BOOLEAN, BOOLEAN, 1..MaxTasks,
                                 stdios)

ScheduleCalls == ScheduleCallsOf(Stdios)

ScheduleCall(c) ==
    LET r == run_command(c)
    IN  /\ ledger' = r.ledger
        /\ tableExists' = r.tableExists
        /\ worktree' = r.worktree
        /\ sched' = r.sched
        /\ history' = history
        /\ call' = [op |-> "schedule",
                    message |-> c.message,
                    conflicts |-> r.conflicts,
                    job |-> r.job,
                    results |-> r.results,
                    raised |-> r.raised]
        /\ closed' = closed
        /\ UNCHANGED <<head, parked>>

\* A call that reaches sbatch unless the conflict check stops it.
Plain(c) ==
    /\ c.check_outputs /\ ~c.dry_run /\ ~c.expand /\ c.db_check /\ c.accepted
    /\ c.ntasks = 1 /\ c.stdio = "default" /\ c.scontrol_ok /\ c.db_insert

\* schedule, while the scheduler accepts no more than `jobs` jobs: once it
\* has accepted that many, only the calls that the conflict check stops.
Schedule(calls, jobs) ==
    \E c \in calls :
        /\ Len(sched) < jobs \/ Plain(c)
        /\ ScheduleCall(c)
        /\ Len(sched') <= jobs

\* ------------------------------------------------------ the job's progress
\* The scheduler moves a task along PENDING -> RUNNING -> terminal state; a
\* task cancelled while pending never runs.
NextStates ==
    [state \in RawStates |->
        CASE state = "PENDING" -> {"RUNNING", "CANCELLED by 1000"}
          [] state = "RUNNING" ->
                {"COMPLETED", "FAILED", "TIMEOUT", "CANCELLED by 1000"}
          [] OTHER -> {}]

\* The same, observed only before the task starts and after it has ended.
EndStates ==
    [state \in RawStates |->
        IF state = "PENDING" THEN {"COMPLETED", "FAILED"} ELSE {}]

\* One move of one task. A task that starts creates its StdOut file and the
\* declared outputs of its command.
TaskStep(moves) ==
    \E j \in DOMAIN sched :
        \E t \in DOMAIN sched[j].states :
            \E new \in moves[sched[j].states[t]] :
                LET stdout == get_slurm_output_files(
                                  j, Len(sched[j].states), sched[j].stdio).paths[t]
                    starts == /\ sched[j].states[t] = "PENDING"
                              /\ new \notin ContainsCancelled
                    written == IF starts THEN {stdout} \cup sched[j].outs
                               ELSE {}
                IN  /\ sched' = [sched EXCEPT ![j].states[t] = new]
                    /\ worktree' = [p \in Paths |->
                                       IF p \in written THEN "dirty"
                                       ELSE worktree[p]]
                    /\ call' = [op |-> "scheduler"]
                    /\ UNCHANGED <<ledger, tableExists, history, closed, head,
                                   parked>>

\* The envelope text that schedule stored in the row's message column is
\* committed to the history of the branch.
CommitEnvelope ==
    \E i \in DOMAIN ledger :
        LET c == [kind |-> ledger[i].message.kind,
                  message |-> ledger[i].message.message,
                  record |-> ledger[i].message.record,
                  paths |-> {}]
        IN  /\ \A k \in DOMAIN history : history[k] # c
            /\ history' = Append(history, c)
            /\ call' = [op |-> "commit"]
            /\ UNCHANGED <<ledger, tableExists, worktree, sched, closed, head,
                           parked>>

\* ------------------------------------------------------------------ finish
\* finish.py get_job_status, lines 544-545: a state that contains CANCELLED
\* becomes CANCELLED, every other state passes through.
NormalizeState(state) ==
    IF state \in ContainsCancelled THEN "CANCELLED" ELSE state

\* finish.py get_job_status, lines 548-552: the common state of the tasks,
\* or PARTIALLY COMPLETED when the tasks are in more than one state.
StatusGroup(job_states) ==
    LET unique_statuses == SetOf(job_states)
    IN  IF Cardinality(unique_statuses) = 1
        THEN CHOOSE s \in unique_statuses : TRUE
        ELSE "PARTIALLY COMPLETED"

\* finish.py get_job_status: the per-task states sacct reports, normalised,
\* and their aggregate.
get_job_status(raw_states) ==
    LET job_states == [t \in DOMAIN raw_states |->
                          NormalizeState(raw_states[t])]
    IN  [states |-> job_states, group |-> StatusGroup(job_states)]

\* str.capitalize() on the aggregate states.
Capitalize(s) ==
    CASE s = "COMPLETED" -> "Completed"
      [] s = "PARTIALLY COMPLETED" -> "Partially completed"
      [] s = "FAILED" -> "Failed"
      [] s = "CANCELLED" -> "Cancelled"
      [] s = "TIMEOUT" -> "Timeout"
      [] s = "PENDING" -> "Pending"
      [] s = "RUNNING" -> "Running"

\* The message finish gives its envelope.
ProcessedLine(job_id, group) ==
    <<"Processed batch job", job_id, Capitalize(group)>>

\* common.py get_schedule_info: the record of a commit whose message is a
\* SCHEDULE or RESCHEDULE envelope, and nothing for any other commit.
IsScheduleEnvelope(c) == c.kind \in {"SCHEDULE", "RESCHEDULE"}

\* common.py extract_incomplete_jobs: the incomplete_job_number of the most
\* recent commit that is a finish or (re)schedule envelope; 0 when that
\* record has no such key or when there is no such commit.
extract_incomplete_jobs(commits) ==
    LET hits == {k \in DOMAIN commits :
                    commits[k].kind \in {"FINISH", "SCHEDULE", "RESCHEDULE"}}
    IN  IF hits = {} THEN 0
        ELSE LET last == CHOOSE k \in hits : \A m \in hits : m <= k
                 info == commits[last].record
             IN  IF "incomplete_job_number" \in DOMAIN info
                 THEN info.incomplete_job_number
                 ELSE 0

\* datalad Save(path=paths, message=msg): commits the modifications under
\* `paths` (of the whole dataset when no path is given) and writes no commit
\* when there is nothing to save or when the save fails.
Save(tree, commits, paths, msg, save_ok) ==
    LET dirty == {p \in Paths : tree[p] = "dirty"}
        targets == IF paths = <<>> THEN dirty ELSE SetOf(paths) \cap dirty
    IN  IF ~save_ok
        THEN [worktree |-> tree, history |-> commits, results |-> <<"error">>]
        ELSE IF targets = {}
        THEN [worktree |-> tree, history |-> commits,
              results |-> <<"notneeded">>]
        ELSE [worktree |-> [p \in Paths |->
                               IF p \in targets THEN "clean" ELSE tree[p]],
              history |-> Append(commits, [msg EXCEPT !.paths = targets]),
              results |-> <<"ok">>]

\* not_complete without the test for PENDING and RUNNING tasks.
not_complete_flag_only(job_states, close_failed_jobs) ==
    /\ ~\A t \in DOMAIN job_states : job_states[t] = "COMPLETED"
    /\ ~close_failed_jobs

\* not_complete without the test of close_failed_jobs.
not_complete_unfinished_only(job_states, close_failed_jobs) ==
    /\ ~\A t \in DOMAIN job_states : job_states[t] = "COMPLETED"
    /\ \E t \in DOMAIN job_states :
           job_states[t] \in {"PENDING", "RUNNING"}

\* finish.py finish_cmd, lines 364-367: the job is refused unless every task
\* is COMPLETED, or close_failed_jobs is set and no task is PENDING or
\* RUNNING.
not_complete(job_states, close_failed_jobs) ==
    /\ ~\A t \in DOMAIN job_states : job_states[t] = "COMPLETED"
    /\ \/ ~close_failed_jobs
       \/ \E t \in DOMAIN job_states :
              job_states[t] \in {"PENDING", "RUNNING"}

\* str(job_id).isdigit(): the job id is written with digits only.
isdigit(job_id) == job_id >= 0

\* resolve_error that takes a failed sacct query for an answer.
resolve_error_unchecked(job_id, sacct_ok) ==
    IF ~isdigit(job_id) \/ job_id \notin DOMAIN sched THEN "ValueError"
    ELSE ""

\* finish.py get_job_status, lines 516-519, 537-538 and 556-557: the error
\* the resolver raises, if any. sacct prints no line for a job the scheduler
\* does not know.
resolve_error(job_id, sacct_ok) ==
    IF ~isdigit(job_id) THEN "ValueError"
    ELSE IF ~sacct_ok THEN "RuntimeError"
    ELSE IF job_id \notin DOMAIN sched THEN "ValueError"
    ELSE ""

\* finish.py finish_cmd for the commit at index `commit` of the history and
\* a call c: the state and the results the call ends with.
\*   c.outputs            -o/--output
\*   c.message            -m/--message
\*   c.close_failed_jobs  --close-failed-jobs
\*   c.sacct_ok           the sacct query succeeds
\*   c.save_ok            datalad Save succeeds
finish_cmd(commit, c) ==
    LET results == history[commit]
        run_info == results.record
        outputs_to_save == c.outputs \o run_info.outputs
        slurm_job_id == run_info.slurm_job_id
        failure == resolve_error(slurm_job_id, c.sacct_ok)
        status == get_job_status(sched[slurm_job_id].states)
        job_states == status.states
        job_status_group == status.group
        deleted ==
            IF \E t \in DOMAIN job_states :
                   job_states[t] \in {"CANCELLED", "FAILED"}
            THEN SetOf(run_info.slurm_run_outputs)
            ELSE {}
        tree1 == [p \in Paths |->
                     IF p \in deleted THEN "absent" ELSE worktree[p]]
        partially == job_status_group = "PARTIALLY COMPLETED"
        array_filename == ArrayInfoPath(slurm_job_id)
        \* the breakdown of terminal states is the same text on every call:
        \* rewriting a saved breakdown file leaves it unmodified
        tree2 == IF partially /\ tree1[array_filename] # "clean"
                 THEN [tree1 EXCEPT ![array_filename] = "dirty"]
                 ELSE tree1
        to_save == IF partially
                   THEN Append(outputs_to_save, array_filename)
                   ELSE outputs_to_save
        incomplete_job_number == extract_incomplete_jobs(history)
        globbed_outputs == Globbed(tree2, to_save)
        record == [incomplete_job_number |-> incomplete_job_number - 1]
                      @@ [run_info EXCEPT !.outputs = globbed_outputs]
        \* line 429 assigns `message`, whatever the caller passed
        msg == [kind |-> "FINISH",
                message |-> <<ProcessedLine(slurm_job_id, job_status_group)>>,
                record |-> record,
                paths |-> {}]
        saved == Save(tree2, history, globbed_outputs, msg, c.save_ok)
        same == [ledger |-> ledger, worktree |-> worktree,
                 history |-> history, job |-> 0, states |-> <<>>,
                 group |-> "", results |-> <<>>, raised |-> FALSE,
                 error |-> "",
                 deleted |-> {}, wrote |-> {}, closes |-> FALSE]
    IN  IF ~IsScheduleEnvelope(results)
            THEN [same EXCEPT !.results = <<"error">>]
        ELSE IF outputs_to_save = <<>>
            THEN [same EXCEPT !.results = <<"error">>]
        ELSE IF failure # ""
            THEN [same EXCEPT !.raised = TRUE, !.error = failure,
                              !.job = slurm_job_id]
        ELSE IF not_complete(job_states, c.close_failed_jobs)
            THEN [same EXCEPT !.results = <<"error">>,
                              !.job = slurm_job_id,
                              !.states = job_states,
                              !.group = job_status_group]
        ELSE IF ~tableExists
            \* DELETE FROM open_jobs in a store without the table
            THEN [same EXCEPT !.worktree = tree2,
                              !.job = slurm_job_id,
                              !.states = job_states,
                              !.group = job_status_group,
                              !.results = IF partially THEN <<"ok">> ELSE <<>>,
                              !.raised = TRUE,
                              !.error = "OperationalError",
                              !.deleted = deleted,
                              !.wrote = IF partially THEN {array_filename}
                                        ELSE {}]
        ELSE [ledger |-> remove_from_database(ledger, run_info),
              worktree |-> saved.worktree,
              history |-> saved.history,
              job |-> slurm_job_id,
              states |-> job_states,
              group |-> job_status_group,
              results |-> (IF partially THEN <<"ok">> ELSE <<>>)
                              \o saved.results,
              raised |-> FALSE,
              error |-> "",
              deleted |-> deleted,
              wrote |-> IF partially THEN {array_filename} ELSE {},
              closes |-> TRUE]

\* The -o/--output lists passed to finish.
FinishOutputChoices == {<<>>, <<PathA>>}

\* The calls of finish, but for the commit: records of its arguments and of
\* the answers of its collaborators. A call whose sacct query fails reads
\* neither close_failed_jobs nor the answer of Save.
FinishCalls ==
    [outputs : FinishOutputChoices, close_failed_jobs : BOOLEAN,
     sacct_ok : {TRUE}, save_ok : BOOLEAN, message : {NoMessage}]
    \cup
    [outputs : FinishOutputChoices, close_failed_jobs : {FALSE},
     sacct_ok : {FALSE}, save_ok : {TRUE}, message : {NoMessage}]

\* finish.py Finish.__call__: with a commit, finish_cmd on that commit;
\* without one, get_scheduled_commits selects the commit_id column, which
\* the open_jobs table does not have, and sqlite3 raises.
FinishCall(commit, c) ==
    LET r == IF commit = 0
             THEN [ledger |-> ledger, worktree |-> worktree,
                   history |-> history, job |-> 0, states |-> <<>>,
                   group |-> "", results |-> <<>>, raised |-> TRUE,
                   error |-> "OperationalError",
                   deleted |-> {}, wrote |-> {}, closes |-> FALSE]
             ELSE finish_cmd(commit, c)
    IN  /\ ledger' = r.ledger
        /\ worktree' = r.worktree
        /\ history' = r.history
        /\ closed' = IF r.closes THEN closed \cup {r.job} ELSE closed
        /\ call' = [op |-> "finish",
                    message |-> c.message,
                    close_failed_jobs |-> c.close_failed_jobs,
                    job |-> r.job,
                    states |-> r.states,
                    group |-> r.group,
                    results |-> r.results,
                    raised |-> r.raised,
                    error |-> r.error,
                    deleted |-> r.deleted,
                    wrote |-> r.wrote]
        /\ UNCHANGED <<tableExists, sched, head, parked>>

\* A call without a commit reads none of the other arguments.
Finish(calls) ==
    \/ \E c \in calls :
           /\ c.outputs = <<>> /\ ~c.close_failed_jobs /\ c.sacct_ok /\ c.save_ok
           /\ FinishCall(0, c)
    \/ \E commit \in DOMAIN history : \E c \in calls : FinishCall(commit, c)

\* --------------------------------------------------------- the envelope text
\* The text of a commit message is a sequence of tokens, each a triple: the
\* lines of a message, newlines, the header and the two marker lines of an
\* envelope, and the payload between the marker lines.
NL == <<"\n", 0, "">>
Header(kind) == <<"[DATALAD", 0, kind>>
Below == <<"=== Do not change lines below ===", 0, "">>
Above == <<"^^^ Do not change lines above ^^^", 0, "">>

\* The text of a message given by its lines.
TextOf(lines) ==
    [i \in 1..(2 * Len(lines) - 1) |->
        IF i % 2 = 1 THEN lines[(i + 1) \div 2] ELSE NL]

\* json.dumps of a job record.
json_dumps(run_info) == <<"json", "dict", run_info>>

\* A payload that is not JSON.
NotJson == <<"{not json", 0, "">>

\* The record files of .datalad/runinfo, by record id.
SidecarFiles == [id1 |-> [cmd |-> "sbatch", slurm_job_id |-> 1]]

\* schedule.py run_command, lines 769-779 and 791-794, and finish.py
\* finish_cmd, lines 421-427 and 436-439: the message template, filled with
\* the text of a message and with a payload.
format_msg(kind, message, record) ==
    <<Header(kind)>> \o message \o <<NL, NL, Below, NL, record, NL, Above, NL>>

\* The text of the envelope with a given kind, message lines and record.
EnvelopeText(envelope) ==
    format_msg(envelope.kind, TextOf(envelope.message),
               json_dumps(envelope.record))

Greatest(S) == CHOOSE x \in S : \A y \in S : y <= x
Least(S) == CHOOSE x \in S : \A y \in S : x <= y

\* str.rstrip(), and the stripping json.loads does at both ends.
rstrip(text) ==
    LET solid == {i \in DOMAIN text : text[i] # NL}
    IN  IF solid = {} THEN <<>> ELSE SubSeq(text, 1, Greatest(solid))
strip(text) ==
    LET solid == {i \in DOMAIN text : text[i] # NL}
    IN  IF solid = {} THEN <<>>
        ELSE SubSeq(text, Least(solid), Greatest(solid))

\* What decoding a commit message ends with.
NoEnvelope == [outcome |-> "none"]
Raises(error) == [outcome |-> error]
Decoded(message, record) ==
    [outcome |-> "ok", message |-> message, record |-> record]

\* common.py get_schedule_info and get_finish_info, which differ in the
\* header they look for: re.match of
\*   \[DATALAD <kind>\] (.*)=== Do not change lines below ===\n(.*)\n
\*   \^\^\^ Do not change lines above \^\^\^
\* with both groups greedy, then json.loads of the second group, the record
\* file for a payload that is neither a list nor a dict, and the test for
\* "cmd".
envelope_info(kinds, text) ==
    LET n == Len(text)
        Closes(i) == {j \in (i + 2)..(n - 1) :
                         text[j] = NL /\ text[j + 1] = Above}
        opens == {i \in 2..(n - 1) :
                     text[i] = Below /\ text[i + 1] = NL /\ Closes(i) # {}}
        i == Greatest(opens)
        j == Greatest(Closes(i))
        rec_msg == SubSeq(text, 2, i - 1)
        body == strip(SubSeq(text, i + 2, j - 1))
        payload == body[1]
        resolved == IF payload[2] = "str" THEN SidecarFiles[payload[3]]
                    ELSE payload[3]
        has_cmd == IF payload[2] = "list" THEN "cmd" \in SetOf(resolved)
                   ELSE "cmd" \in DOMAIN resolved
    IN  IF n = 0 \/ text[1] \notin {Header(k) : k \in kinds} \/ opens = {}
            THEN NoEnvelope
        ELSE IF Len(body) # 1 \/ payload[1] # "json"
            THEN Raises("ValueError")
        ELSE IF payload[2] = "num"
            \* os.path.join with a number
            THEN Raises("TypeError")
        ELSE IF payload[2] = "str" /\ payload[3] \notin DOMAIN SidecarFiles
            THEN Raises("ValueError")
        ELSE IF ~has_cmd
            THEN Raises("ValueError")
        ELSE Decoded(rstrip(rec_msg), resolved)

get_schedule_info(text, allow_reschedule) ==
    envelope_info(IF allow_reschedule THEN {"SCHEDULE", "RESCHEDULE"}
                  ELSE {"SCHEDULE"}, text)

\* A decoder of finish envelopes that takes an envelope of any kind.
get_any_info(text) == envelope_info({"FINISH", "SCHEDULE", "RESCHEDULE"}, text)

get_finish_info(text) == envelope_info({"FINISH"}, text)

\* ---------------------------------------------------------- specifications
\* The life of one job, plain or array, each task writing its own log, with
\* every answer of the collaborators.
JobScheduleCalls == ScheduleCallsOf({"default"})

NextJob ==
    \/ Schedule(JobScheduleCalls, 1)
    \/ TaskStep(NextStates)
    \/ CommitEnvelope
    \/ Finish(FinishCalls)

SpecJob == Init /\ [][NextJob]_vars

\* Several jobs on one ledger: single-task jobs with declared outputs, each
\* writing its own log, scheduled with or without the conflict check;
\* collaborators that answer.
NamedOutputs == OutputChoices \ {<<>>}

LedgerScheduleCalls ==
    StoppedCalls(NamedOutputs, BOOLEAN, {FALSE})
        \cup AcceptedCalls(NamedOutputs, BOOLEAN, {FALSE}, {1}, {"default"},
                           {TRUE})

LedgerFinishCalls ==
    [outputs : {<<>>}, close_failed_jobs : BOOLEAN,
     sacct_ok : {TRUE}, save_ok : {TRUE}, message : {NoMessage}]

Next ==
    \/ Schedule(LedgerScheduleCalls, MaxJobs)
    \/ TaskStep(EndStates)
    \/ CommitEnvelope
    \/ Finish(LedgerFinishCalls)

Spec == Init /\ [][Next]_vars

\* Jobs that write their own log or a common one, every one of them
\* scheduled with the conflict check.
CheckedScheduleCalls ==
    StoppedCalls(NamedOutputs, {TRUE}, {FALSE})
        \cup AcceptedCalls(NamedOutputs, {TRUE}, {FALSE}, {1}, Stdios, {TRUE})

NextChecked ==
    \/ Schedule(CheckedScheduleCalls, MaxJobs)
    \/ TaskStep(EndStates)
    \/ CommitEnvelope
    \/ Finish(LedgerFinishCalls)

SpecChecked == Init /\ [][NextChecked]_vars

\* One submission with every answer of sbatch, scontrol and the store: with
\* or without a message, first-time or replayed, with outputs given as paths
\* or as a pattern.
SubmitOutputChoices == {<<PathA>>, <<PathB>>, <<Star>>}

SubmitCalls ==
    [outputs : SubmitOutputChoices, check_outputs : {TRUE}, expand : {FALSE},
     dry_run : {FALSE}, db_check : {TRUE}, accepted : {TRUE},
     ntasks : {1}, stdio : {"default"},
     scontrol_ok : {TRUE}, db_insert : BOOLEAN,
     message : {NoMessage, UserNote}, rerun_info : {NoRerun, RerunInfo},
     allow_wildcard_outputs : BOOLEAN, exit_code : {0, 1}]
    \cup
    [outputs : SubmitOutputChoices, check_outputs : {TRUE}, expand : {FALSE},
     dry_run : {FALSE}, db_check : {TRUE}, accepted : BOOLEAN,
     ntasks : {1}, stdio : {"default"},
     scontrol_ok : {FALSE}, db_insert : {TRUE},
     message : {NoMessage}, rerun_info : {NoRerun},
     allow_wildcard_outputs : {TRUE}, exit_code : {0, 1}]

SubmitFinishCalls ==
    [outputs : {<<>>}, close_failed_jobs : BOOLEAN,
     sacct_ok : {TRUE}, save_ok : BOOLEAN, message : {NoMessage, UserNote}]

NextSubmit ==
    \/ Schedule(SubmitCalls, 1)
    \/ TaskStep(EndStates)
    \/ CommitEnvelope
    \/ Finish(SubmitFinishCalls)

SpecSubmit == Init /\ [][NextSubmit]_vars

\* Decoding commit messages: the text of a commit message is drawn from the
\* texts with or without a header, with a message, and with the marker lines
\* complete, cut before the closing marker, or absent; between the marker
\* lines stands a record, a record without a command, a list, the id of a
\* record file, a number, text that is not JSON, or nothing.
CodecKinds == {"SCHEDULE", "RESCHEDULE", "FINISH"}
CodecMessages == {NoMessage, UserNote, UserNote \o <<SubmittedLine(1)>>}
CodecRecord == [cmd |-> "sbatch", slurm_job_id |-> 1]
CodecPayloads ==
    {<<json_dumps(CodecRecord)>>,
     <<json_dumps([slurm_job_id |-> 1])>>,
     <<<<"json", "list", <<>>>>>>,
     <<<<"json", "list", <<"cmd">>>>>>,
     <<<<"json", "str", "id1">>>>,
     <<<<"json", "str", "id2">>>>,
     <<<<"json", "num", 5>>>>,
     <<NotJson>>,
     <<>>}
CodecInputs ==
    [kind : CodecKinds \cup {"none"}, message : CodecMessages,
     payload : CodecPayloads, frame : {"full", "open", "bare"}]

\* The commit message text with the given parts.
CommitText(parts) ==
    (IF parts.kind = "none" THEN <<>> ELSE <<Header(parts.kind)>>)
        \o TextOf(parts.message)
        \o (IF parts.frame = "bare" THEN <<>>
            ELSE <<NL, NL, Below, NL>> \o parts.payload)
        \o (IF parts.frame = "full" THEN <<NL, Above, NL>> ELSE <<>>)

InitCodec ==
    /\ ledger = <<>>
    /\ tableExists = FALSE
    /\ history = <<>>
    /\ worktree = [p \in Paths |-> "absent"]
    /\ sched = <<>>
    /\ closed = {}
    /\ head = "main"
    /\ parked = [name \in DbNames |-> NoStore]
    /\ call \in {[op |-> "text", parts |-> parts, text |-> CommitText(parts)] :
                    parts \in CodecInputs}

\* schedule.py run_command, lines 791-794, and finish.py finish_cmd, lines
\* 436-439: the commit message text of an envelope.
Encode ==
    \E kind \in CodecKinds, message \in CodecMessages, job_id \in 1..2 :
        LET record == [cmd |-> "sbatch", slurm_job_id |-> job_id]
        IN  /\ call.op # "text"
            /\ call' = [op |-> "text",
                        parts |-> [kind |-> kind, message |-> message,
                                   payload |-> <<json_dumps(record)>>,
                                   frame |-> "full"],
                        text |-> format_msg(kind, TextOf(message),
                                            json_dumps(record))]
            /\ UNCHANGED <<ledger, tableExists, history, worktree, sched,
                           closed, head, parked>>

\* common.py get_schedule_info, called on a commit message.
DecodeSchedule ==
    \E allow_reschedule \in BOOLEAN :
        /\ call.op = "text"
        /\ call' = [op |-> "get_schedule_info",
                    parts |-> call.parts,
                    kinds |-> IF allow_reschedule
                              THEN {"SCHEDULE", "RESCHEDULE"}
                              ELSE {"SCHEDULE"},
                    result |-> get_schedule_info(call.text, allow_reschedule)]
        /\ UNCHANGED <<ledger, tableExists, history, worktree, sched, closed,
                       head, parked>>

\* common.py get_finish_info, called on a commit message.
DecodeFinish ==
    /\ call.op = "text"
    /\ call' = [op |-> "get_finish_info",
                parts |-> call.parts,
                kinds |-> {"FINISH"},
                result |-> get_finish_info(call.text)]
    /\ UNCHANGED <<ledger, tableExists, history, worktree, sched, closed,
                   head, parked>>

NextCodec ==
    \/ Encode
    \/ DecodeSchedule
    \/ DecodeFinish

SpecCodec == InitCodec /\ [][NextCodec]_vars

\* A dataset whose history begins with a SCHEDULE commit this ledger has no
\* row for (the commit came with a clone, or its record was edited): the
\* record names no outputs or one, and its job id is no number, the id of a
\* job the scheduler knows, or an id sacct prints nothing for.
UnknownJob == MaxJobs + 1
ForeignRecords ==
    [cmd : {"sbatch"}, chain : {<<>>}, outputs : {<<>>, <<PathA>>},
     slurm_run_outputs : {<<>>}, slurm_job_id : {-1, 1, UnknownJob}]

InitForeign ==
    /\ ledger = <<>>
    /\ tableExists = FALSE
    /\ \E record \in ForeignRecords :
           history = <<[kind |-> "SCHEDULE",
                        message |-> <<SubmittedLine(record.slurm_job_id)>>,
                        record |-> record,
                        paths |-> {}]>>
    /\ worktree = [p \in Paths |-> "absent"]
    /\ sched = <<[stdio |-> "default", states |-> <<"PENDING">>, outs |-> {}]>>
    /\ call = NoCall
    /\ closed = {}
    /\ head = "main"
    /\ parked = [name \in DbNames |-> NoStore]

ForeignScheduleCalls ==
    AcceptedCalls({<<PathB>>}, {TRUE}, {FALSE}, {1}, {"default"}, {TRUE})

ForeignFinishCalls ==
    [outputs : {<<>>, <<PathB>>}, close_failed_jobs : BOOLEAN,
     sacct_ok : BOOLEAN, save_ok : {TRUE}, message : {NoMessage}]

NextForeign ==
    \/ Schedule(ForeignScheduleCalls, MaxJobs)
    \/ TaskStep(EndStates)
    \/ CommitEnvelope
    \/ Finish(ForeignFinishCalls)

SpecForeign == InitForeign /\ [][NextForeign]_vars

\* Work on several branches of one dataset. The store an invocation opens
\* is resolved anew from what is checked out; between invocations the user
\* checks out another branch or a commit. The commits stay reachable by
\* their ids after a checkout, and untracked files stay where they are.
StoreOf(checked_out) ==
    IF db_name(checked_out) = db_name(head)
    THEN [ledger |-> ledger, tableExists |-> tableExists]
    ELSE parked[db_name(checked_out)]

Checkout ==
    \E target \in Heads :
        LET old == db_name(head)
            new == db_name(target)
        IN  /\ target # head
            /\ head' = target
            /\ IF new = old
               THEN UNCHANGED <<ledger, tableExists, parked>>
               ELSE /\ ledger' = parked[new].ledger
                    /\ tableExists' = parked[new].tableExists
                    /\ parked' = [parked EXCEPT
                                     ![old] = [ledger |-> ledger,
                                               tableExists |-> tableExists],
                                     ![new] = NoStore]
            /\ call' = [op |-> "checkout"]
            /\ UNCHANGED <<history, worktree, sched, closed>>

BranchScheduleCalls ==
    AcceptedCalls({<<PathA>>}, {TRUE}, {FALSE}, {1}, {"default"}, {TRUE})

BranchFinishCalls ==
    [outputs : {<<>>}, close_failed_jobs : {FALSE}, sacct_ok : {TRUE},
     save_ok : {TRUE}, message : {NoMessage}]

NextBranch ==
    \/ Schedule(BranchScheduleCalls, MaxJobs)
    \/ TaskStep(EndStates)
    \/ CommitEnvelope
    \/ Finish(BranchFinishCalls)
    \/ Checkout

SpecBranch == Init /\ [][NextBranch]_vars

\* The operations of the ledger by themselves, called with the records of
\* jobs whose ids are whatever sbatch printed: an id may come back (the
\* scheduler's counter wraps, or the command is sent to another cluster).
MaxRows == 3
LedgerRecords ==
    [cmd : {"sbatch"}, chain : {<<>>}, outputs : {<<PathA>>, <<PathB>>},
     slurm_run_outputs : {<<>>}, slurm_job_id : 1..MaxJobs]

Insert ==
    \E run_info \in LedgerRecords :
        /\ Len(ledger) < MaxRows
        /\ ledger' = add_to_database(ledger, run_info, NoMessage)
        /\ tableExists' = TRUE
        /\ call' = [op |-> "insert", job |-> run_info.slurm_job_id]
        /\ UNCHANGED <<history, worktree, sched, closed, head, parked>>

\* finish.py remove_from_database, lines 570-573: the DELETE names the table
\* open_jobs, which only add_to_database creates; sqlite3 raises
\* OperationalError (no such table) in a store that has none.
remove_from_database_error(exists) ==
    IF exists THEN "" ELSE "OperationalError"

Delete ==
    \E run_info \in LedgerRecords :
        /\ ledger' = IF remove_from_database_error(tableExists) = ""
                      THEN remove_from_database(ledger, run_info)
                      ELSE ledger
        /\ call' = [op |-> "delete", job |-> run_info.slurm_job_id,
                    error |-> remove_from_database_error(tableExists)]
        /\ UNCHANGED <<tableExists, history, worktree, sched, closed, head,
                       parked>>

Scan ==
    \E outputs \in {<<PathA>>, <<PathB>>} :
        /\ call' = [op |-> "scan",
                    conflicts |-> check_output_conflict(ledger, tableExists,
                                                        outputs)]
        /\ UNCHANGED <<ledger, tableExists, history, worktree, sched, closed,
                       head, parked>>

NextLedger ==
    \/ Insert
    \/ Delete
    \/ Scan

SpecLedger == Init /\ [][NextLedger]_vars

\* Dry runs between submissions: every dry run, with or without the
\* conflict check, with a store that opens or not, next to calls that
\* submit a job.
DryRunCalls ==
    [outputs : SubmitOutputChoices, check_outputs : BOOLEAN, expand : {FALSE},
     dry_run : {TRUE}, db_check : BOOLEAN, accepted : {TRUE},
     ntasks : {1}, stdio : {"default"},
     scontrol_ok : {TRUE}, db_insert : {TRUE},
     message : {NoMessage, UserNote}, rerun_info : {NoRerun, RerunInfo},
     allow_wildcard_outputs : BOOLEAN, exit_code : {0}]

NextDryRun ==
    \/ Schedule(DryRunCalls \cup BranchScheduleCalls, MaxJobs)
    \/ TaskStep(EndStates)
    \/ CommitEnvelope
    \/ Finish(LedgerFinishCalls)

SpecDryRun == Init /\ [][NextDryRun]_vars

\* ------------------------------------------------------------ array names
\* The text of an array specifier is a sequence of tokens: numbers and the
\* characters - : , %.
Num(i) == <<"num", i, "">>
Dash == <<"-", 0, "">>
Colon == <<":", 0, "">>
Comma == <<",", 0, "">>
Percent == <<"%", 0, "">>

\* str.split(sep)
RECURSIVE split(_, _)
split(text, sep) ==
    LET at == {i \in DOMAIN text : text[i] = sep}
    IN  IF at = {} THEN <<text>>
        ELSE <<SubSeq(text, 1, Least(at) - 1)>>
                 \o split(SubSeq(text, Least(at) + 1, Len(text)), sep)

\* int() of the text of a number.
int(text) == text[1][2]

\* range() with every step taken as 1.
range_unit(start, stop, step) ==
    [k \in 1..(IF stop > start THEN stop - start ELSE 0) |-> start + k - 1]

\* range(start, stop, step) for a positive step.
range(start, stop, step) ==
    LET n == IF stop > start THEN ((stop - start - 1) \div step) + 1 ELSE 0
    IN  [k \in 1..n |-> start + (k - 1) * step]

\* f"{job_id}_{index}", the index given as text.
ArrayJobName(job_id, index) == <<job_id, index>>

RECURSIVE Flatten(_)
Flatten(lists) ==
    IF lists = <<>> THEN <<>> ELSE Head(lists) \o Flatten(Tail(lists))

\* schedule.py generate_array_job_names.
generate_array_job_names(job_id, job_task_id) ==
    LET spec == IF Percent \in SetOf(job_task_id)
                THEN split(job_task_id, Percent)[1]
                ELSE job_task_id
        ranges == split(spec, Comma)
        NamesOf(range_spec) ==
            IF Dash \notin SetOf(range_spec)
            THEN <<ArrayJobName(job_id, range_spec)>>
            ELSE LET range_parts == split(range_spec, Colon)
                     bounds == split(range_parts[1], Dash)
                     start == int(bounds[1])
                     end == int(bounds[2])
                     step == IF Len(range_parts) > 1
                             THEN int(range_parts[2]) ELSE 1
                     indices == range(start, end + 1, step)
                 IN  [k \in 1..Len(indices) |->
                         ArrayJobName(job_id, <<Num(indices[k])>>)]
    IN  Flatten([r \in 1..Len(ranges) |-> NamesOf(ranges[r])])

\* Array specifiers of one or two items, an item a single index or a range
\* a-b or a-b:s (s = 0 stands for a range written without a step), with or
\* without a throttle (0 stands for none).
MaxIndex == 5
MaxStep == 2
ArrayItems ==
    {[kind |-> "single", a |-> i, b |-> i, s |-> 0] : i \in 1..MaxIndex}
        \cup [kind : {"range"}, a : 1..MaxIndex, b : 1..MaxIndex,
              s : 0..MaxStep]
ArraySpecs ==
    {<<item>> : item \in ArrayItems}
        \cup {<<first, second>> : first, second \in ArrayItems}

\* The text of a specifier.
ItemText(item) ==
    IF item.kind = "single" THEN <<Num(item.a)>>
    ELSE <<Num(item.a), Dash, Num(item.b)>>
             \o (IF item.s # 0 THEN <<Colon, Num(item.s)>> ELSE <<>>)
SpecifierText(items, throttle) ==
    ItemText(items[1])
        \o (IF Len(items) > 1 THEN <<Comma>> \o ItemText(items[2]) ELSE <<>>)
        \o (IF throttle # 0 THEN <<Percent, Num(throttle)>> ELSE <<>>)

InitArray ==
    /\ ledger = <<>>
    /\ tableExists = FALSE
    /\ history = <<>>
    /\ worktree = [p \in Paths |-> "absent"]
    /\ sched = <<>>
    /\ closed = {}
    /\ head = "main"
    /\ parked = [name \in DbNames |-> NoStore]
    /\ \E items \in ArraySpecs, throttle \in {0, 2} :
           call = [op |-> "specifier", items |-> items,
                   text |-> SpecifierText(items, throttle)]

GenerateNames ==
    \E job_id \in 1..MaxJobs :
        /\ call.op = "specifier"
        /\ call' = [op |-> "generate_array_job_names",
                    items |-> call.items,
                    job_id |-> job_id,
                    names |-> generate_array_job_names(job_id, call.text)]
        /\ UNCHANGED <<ledger, tableExists, history, worktree, sched, closed,
                       head, parked>>

NextArray == GenerateNames

SpecArray == InitArray /\ [][NextArray]_vars

\* ------------------------------------------------------------------ replay
\* reschedule.py. The history is linear and is replayed from its tip (the
\* default revision): the commits of a range are history[since + 1 ..],
\* oldest first, each with the single parent before it (the commit that
\* created the dataset stands before history[1]).
MaxCommits == 2

\* dset.id, and the id of another dataset.
dset_id == "dsid"
OtherDataset == "dsid-other"

\* The hexsha of the k-th commit.
Hexsha(k) ==
    CASE k = 1 -> "c1" [] k = 2 -> "c2" [] k = 3 -> "c3" [] k = 4 -> "c4"
      [] OTHER -> "c5"

\* The jobs the commits of the initial history report were accepted before
\* the behaviour begins; their ids lie above those the scheduler hands out
\* in it.
OldJob(k) == MaxJobs + k

\* The record of the FINISH commit of an old job: what schedule recorded
\* (schedule.py 664-690 and 734-738), with the outputs finish found.
FinishedRecord(k, out, dsid) ==
    [cmd |-> "sbatch", chain |-> <<>>,
     outputs |-> <<out, StdoutPath(OldJob(k), 0), EnvPath(OldJob(k))>>,
     slurm_run_outputs |-> <<StdoutPath(OldJob(k), 0), EnvPath(OldJob(k))>>,
     slurm_job_id |-> OldJob(k), dsid |-> dsid]

\* A line `Slurm job <id>: <status>`, which no operation writes into a
\* commit message: it is there when a message was amended by hand.
SlurmJobLine(job_id, status) == <<"Slurm job", job_id, status>>

\* The kinds of commit an initial history is made of.
CommitKinds ==
    {"plain", "scheduled-a", "completed-a", "completed-b", "failed-a",
     "amended-failed-a", "other-dataset", "not-json", "no-cmd"}

\* The message of the k-th commit of an initial history.
ReplayCommit(k, kind) ==
    LET Finished(group, record) ==
            format_msg("FINISH", TextOf(<<ProcessedLine(OldJob(k), group)>>),
                       record)
    IN  CASE kind = "plain" -> TextOf(UserNote)
          [] kind = "scheduled-a" ->
                 format_msg("SCHEDULE", TextOf(<<SubmittedLine(OldJob(k))>>),
                            json_dumps(FinishedRecord(k, PathA, dset_id)))
          [] kind = "completed-a" ->
                 Finished("COMPLETED",
                          json_dumps(FinishedRecord(k, PathA, dset_id)))
          [] kind = "completed-b" ->
                 \* the job was itself a replay, of the commit "c0"
                 Finished("COMPLETED",
                          json_dumps([FinishedRecord(k, PathB, dset_id)
                                          EXCEPT !.chain = <<"c0">>]))
          [] kind = "failed-a" ->
                 Finished("FAILED",
                          json_dumps(FinishedRecord(k, PathA, dset_id)))
          [] kind = "amended-failed-a" ->
                 format_msg("FINISH",
                            TextOf(<<SlurmJobLine(OldJob(k), "Failed")>>),
                            json_dumps(FinishedRecord(k, PathA, dset_id)))
          [] kind = "other-dataset" ->
                 Finished("COMPLETED",
                          json_dumps(FinishedRecord(k, PathA, OtherDataset)))
          [] kind = "not-json" -> Finished("COMPLETED", NotJson)
          [] kind = "no-cmd" ->
                 Finished("COMPLETED",
                          json_dumps([slurm_job_id |-> OldJob(k)]))

InitReplay ==
    /\ ledger = <<>>
    /\ tableExists = FALSE
    /\ \E n \in 1..MaxCommits : \E kinds \in [1..n -> CommitKinds] :
           history = [k \in 1..n |->
                         [text |-> ReplayCommit(k, kinds[k]), paths |-> {}]]
    /\ worktree = [p \in Paths |-> "absent"]
    /\ sched = <<>>
    /\ call = NoCall
    /\ closed = {}
    /\ head = "main"
    /\ parked = [name \in DbNames |-> NoStore]

\* reschedule.py parse_job_status: the first line that starts with
\* `Slurm job` says whether the job failed; None without such a line.
parse_job_status(text) ==
    LET IsLine(token) == token # NL
        lines == SelectSeq(text, IsLine)
        hits == {i \in DOMAIN lines : lines[i][1] = "Slurm job"}
    IN  IF hits = {} THEN "None"
        ELSE IF lines[Least(hits)][3] = "Completed" THEN "False"
        ELSE "True"

\* reschedule.py check_job_pattern: the message without the text
\* `Submitted batch job <id>: Pending`, None when nothing else is in it.
check_job_pattern(lines) ==
    LET IsMatch(line) == line[1] = "Submitted batch job" /\ line[3] = "Pending"
        hits == {i \in DOMAIN lines : IsMatch(lines[i])}
        match == lines[Least(hits)]
        Other(line) == line # match
    IN  IF hits = {} THEN lines
        ELSE SelectSeq(lines, Other)

\* The lines of a decoded message.
LinesOf(text) ==
    LET IsLine(token) == token # NL
    IN  SelectSeq(text, IsLine)

\* reschedule.py _revrange_as_results, for one revision: the result record,
\* with slurm_run_info, run_message and job_failed when the message decodes
\* to a finish envelope (`decoded` is what get_finish_info makes of it).
revision_result(rev, decoded) ==
    IF decoded.outcome = "ok"
    THEN [commit |-> rev, parents |-> <<rev - 1>>, status |-> "ok",
          slurm_run_info |-> decoded.record,
          run_message |-> decoded.message,
          job_failed |-> parse_job_status(decoded.message)]
    ELSE [commit |-> rev, parents |-> <<rev - 1>>, status |-> "ok"]

\* The revisions of a range whose message get_finish_info raises on, the
\* first one only.
undecodable_first(since) ==
    {rev \in {since + 1} :
        get_finish_info(history[rev].text).outcome \notin {"ok", "none"}}

\* The revisions of a range whose message get_finish_info raises on.
undecodable(since) ==
    {rev \in (since + 1)..Len(history) :
        get_finish_info(history[rev].text).outcome \notin {"ok", "none"}}

\* A classification that does not look at the dataset id of the record.
classify_any_dataset(res, message) ==
    IF "slurm_run_info" \in DOMAIN res
    THEN res @@ [rerun_action |-> "run", rerun_message |-> message]
    ELSE res @@ [rerun_action |-> "skip-or-pick"]

\* reschedule.py _rerun_as_results, classifying one result record.
classify(res, message) ==
    IF "slurm_run_info" \in DOMAIN res
    THEN LET info == res.slurm_run_info
             rerun_dsid == IF "dsid" \in DOMAIN info THEN info.dsid ELSE ""
         IN  IF rerun_dsid # "" /\ rerun_dsid # dset_id
             THEN [res EXCEPT !.status = "impossible"]
                      @@ [rerun_action |-> "skip-or-pick"]
             ELSE res @@ [rerun_action |-> "run", rerun_message |-> message]
    ELSE res @@ [rerun_action |-> "skip-or-pick"]

\* A record that reports success when nothing is found.
NothingFound_ok == [status |-> "ok"]

\* The record reschedule yields when it finds nothing to replay.
NothingFound == [status |-> "impossible"]

\* reschedule.py _revrange_as_results: the decoded messages of the revisions
\* of the range since..HEAD, oldest first.
decoded_range(since) ==
    [i \in 1..(Len(history) - since) |->
        get_finish_info(history[since + i].text)]

\* reschedule.py _rerun_as_results, given the revisions of the range that
\* do not decode (`bad`) and what the messages decode to: the leading
\* revisions without a record are dropped, then the failed ones unless
\* with_failed_jobs, and what is left is classified.
classified(since, message, with_failed_jobs, bad, decoded) ==
    LET all == [i \in DOMAIN decoded |->
                   revision_result(since + i, decoded[i])]
        HasInfo(res) == "slurm_run_info" \in DOMAIN res
        with_info == {i \in DOMAIN all : HasInfo(all[i])}
        dropped == IF with_info = {} THEN <<>>
                   ELSE SubSeq(all, Least(with_info), Len(all))
        NotFailed(res) == res.job_failed \in {"None", "False"}
        kept == IF with_failed_jobs THEN dropped
                ELSE SelectSeq(SelectSeq(dropped, HasInfo), NotFailed)
    IN  IF bad # {}
        THEN [raised |-> decoded[Least(bad) - since].outcome,
              results |-> <<>>]
        ELSE IF ~with_failed_jobs /\ \E i \in DOMAIN dropped :
                                         ~HasInfo(dropped[i])
        \* result["job_failed"] of a record without that key
        THEN [raised |-> "KeyError", results |-> <<>>]
        ELSE IF kept = <<>>
        THEN [raised |-> "", results |-> <<NothingFound>>]
        ELSE [raised |-> "",
              results |-> [i \in DOMAIN kept |-> classify(kept[i], message)]]

\* reschedule.py _rerun_as_results: the whole range is decoded before the
\* first record is yielded (list() at 347 drains _revrange_as_results, whose
\* ValueError the try at 335 does not see, the generator not having started
\* there).
rerun_as_results(since, message, with_failed_jobs) ==
    classified(since, message, with_failed_jobs, undecodable(since),
               decoded_range(since))

\* Reschedule.__call__, lines 229-236: the handler of the results.
handler_rerun(report) == "_rerun"
handler(report) == IF report THEN "_report" ELSE "_rerun"

\* What a result record looks like to the caller.
Shown(res) ==
    [commit |-> IF "commit" \in DOMAIN res THEN res.commit ELSE 0,
     rerun_action |-> IF "rerun_action" \in DOMAIN res THEN res.rerun_action
                      ELSE "",
     status |-> res.status]

\* Whether a replay has records left to act on.
Replaying == call.op = "reschedule" /\ call.pending # <<>>

\* The record of a reschedule call that has read its range: _report yields
\* every record and changes nothing; _rerun is left with the records to act
\* on.
planned(since, report, with_failed_jobs, plan, hexsha) ==
    LET reports == handler(report) = "_report"
        shown == [i \in DOMAIN plan.results |-> Shown(plan.results[i])]
    IN  [op |-> "reschedule",
         since |-> since,
         report |-> report,
         with_failed_jobs |-> with_failed_jobs,
         raised |-> plan.raised,
         plan |-> shown,
         results |-> IF reports THEN shown ELSE <<>>,
         pending |-> IF reports THEN <<>> ELSE plan.results,
         job |-> 0,
         conflicts |-> <<>>,
         \* _rerun, lines 423-427: head = onto = get_hexsha(), new_bases = {}
         head |-> hexsha,
         onto |-> hexsha,
         new_bases |-> <<>>]

\* A commit is written as the line of commits that leads to it from the
\* commit the history begins after: the k-th commit of the history is
\* <<1, ..., k>>, and the copy a cherry-pick makes of it ends with 10 + k.
Line(k) == [i \in 1..k |-> i]
Picked(k) == 10 + k

\* A commit off the history, made on the commit the history begins after.
Elsewhere == <<9>>

\* Where HEAD may be when reschedule is called for the revision at the tip
\* of the history: at the tip (the default revision), at any earlier
\* commit, or on another line.
HeadChoices == {Line(k) : k \in 0..Len(history)} \cup {Elsewhere}

\* An ancestry test that finds no commit reachable.
is_ancestor_never(a, b) == FALSE

\* GitRepo.is_ancestor(a, b): a is b or is reachable from b.
is_ancestor(a, b) == Len(a) <= Len(b) /\ SubSeq(b, 1, Len(a)) = a

\* GitRepo.cherry_pick(res_hexsha) with HEAD at `now`: the new HEAD.
cherry_pick(k, now) == Append(now, Picked(k))

\* reschedule.py _rerun, lines 488-507: moving to the appropriate base for
\* the record res, with HEAD at `now`. `restore` is head_to_restore, in a
\* sequence that is empty when there is none; `skip` says that the record
\* is skipped at 504.
on_base(res, now, onto, new_bases) ==
    LET p == res.parents[1]
        parent == Line(p)
        stays == [head |-> now, new_bases |-> new_bases,
                  restore |-> <<>>, skip |-> FALSE]
    IN  IF p \in DOMAIN new_bases
        THEN IF new_bases[p] # now
             THEN [stays EXCEPT !.head = new_bases[p], !.restore = <<now>>]
             ELSE stays
        ELSE IF parent # now /\ is_ancestor(onto, parent)
        THEN IF res.rerun_action = "run"
             THEN [stays EXCEPT !.head = parent]
             ELSE [stays EXCEPT !.skip = TRUE]
        ELSE IF parent # now
        THEN [stays EXCEPT !.new_bases = (p :> now) @@ new_bases]
        ELSE stays

\* reschedule.py _rerun, lines 503-522 and 565-568: a skip-or-pick record
\* on its base: skipped if HEAD reaches it, cherry-picked if not.
skip_or_pick(res, base) ==
    IF base.skip
    THEN [which |-> "skip", head |-> base.head, new_bases |-> base.new_bases]
    ELSE IF is_ancestor(Line(res.commit), base.head)
    THEN [which |-> "skip",
          head |-> IF base.restore # <<>> THEN base.restore[1]
                   ELSE base.head,
          new_bases |-> base.new_bases]
    ELSE LET new_head == cherry_pick(res.commit, base.head)
         IN  [which |-> "pick", head |-> new_head,
              new_bases |-> (res.commit :> new_head) @@ base.new_bases]

\* Reschedule.__call__ up to the handler's first record: the range is
\* since..REVISION, the history being that of REVISION (since =
\* Len(history) - 1 is the default, REVISION^..REVISION).
Reschedule ==
    \E since \in 0..(Len(history) - 1) : \E report, with_failed_jobs \in BOOLEAN :
    \E message \in {NoMessage, UserNote} : \E hexsha \in HeadChoices :
        /\ ~Replaying
        /\ call' = planned(since, report, with_failed_jobs,
                           rerun_as_results(since, message, with_failed_jobs),
                           hexsha)
        /\ UNCHANGED <<ledger, tableExists, history, worktree, sched,
                       closed, head, parked>>

\* A trail begun anew at every replay.
rerun_chain_restart(slurm_run_info, res_hexsha) == <<res_hexsha>>

\* reschedule.py _rerun, lines 524-529: the "rerun" trail, the chain of the
\* record with the hexsha of the replayed commit appended.
rerun_chain(slurm_run_info, res_hexsha) ==
    Append(slurm_run_info.chain, res_hexsha)

\* reschedule.py _rerun, lines 545-547: the outputs carried over to the new
\* submission, less those under the record's key `slurm_outputs`. The
\* record has no such key (schedule.py 737 writes `slurm_run_outputs`), so
\* slurm_run_info.get("slurm_outputs", []) is the empty list.
carried_outputs(slurm_run_info) ==
    LET old_slurm_outputs ==
            IF "slurm_outputs" \in DOMAIN slurm_run_info
            THEN slurm_run_info.slurm_outputs ELSE <<>>
        Kept(output) == output \notin SetOf(old_slurm_outputs)
    IN  SelectSeq(slurm_run_info.outputs, Kept)

\* The call of the scheduling operation for a `run` record (reschedule.py
\* 523-564).
rerun_call(res, accepted) ==
    LET slurm_run_info == res.slurm_run_info
        chain == rerun_chain(slurm_run_info, Hexsha(res.commit))
        message == IF res.rerun_message # NoMessage THEN res.rerun_message
                   ELSE LinesOf(res.run_message)
    IN  [outputs |-> carried_outputs(slurm_run_info),
         check_outputs |-> TRUE,
         expand |-> FALSE, dry_run |-> FALSE, db_check |-> TRUE,
         accepted |-> accepted, ntasks |-> 1, stdio |-> "default",
         scontrol_ok |-> TRUE, db_insert |-> TRUE,
         message |-> check_job_pattern(message),
         rerun_info |-> [slurm_job_id |-> slurm_run_info.slurm_job_id,
                         chain |-> chain],
         allow_wildcard_outputs |-> FALSE, exit_code |-> 0]

\* The scheduling operation _rerun calls. reschedule.py imports it by the
\* name schedule_cmd from schedule.py, which defines it as run_command.
schedule_cmd(c) == run_command(c)

\* _rerun stopping at the first record whose re-submission yields an error.
left_after_stop_on_error(pending, r) ==
    IF r.raised \/ "error" \in SetOf(r.results) THEN <<>> ELSE Tail(pending)

\* reschedule.py _rerun, the records left after a `run` record: the loop
\* goes on to the next record whatever the scheduling operation yielded,
\* and ends with the exception when it raised.
left_after(pending, r) == IF r.raised THEN <<>> ELSE Tail(pending)

\* reschedule.py _rerun, one turn of its loop over the records: the record
\* is yielded as it is when it has no action, submitted again on its base
\* when it is a `run` record, and skipped or cherry-picked when not. The
\* scheduling operation writes no commit, so HEAD stays where the base is.
\* An exception of the scheduling operation ends the replay.
Rerun ==
    /\ Replaying
    /\ LET res == Head(call.pending)
           rerun_action == IF "rerun_action" \in DOMAIN res
                           THEN res.rerun_action ELSE ""
       IN  IF rerun_action = "run"
           THEN \E accepted \in BOOLEAN :
                    LET r == schedule_cmd(rerun_call(res, accepted))
                        base == on_base(res, call.head, call.onto,
                                        call.new_bases)
                    IN  /\ Len(r.sched) <= MaxJobs
                        /\ ledger' = r.ledger
                        /\ tableExists' = r.tableExists
                        /\ worktree' = r.worktree
                        /\ sched' = r.sched
                        /\ call' = [call EXCEPT
                               !.raised = IF r.raised THEN "UnboundLocalError"
                                          ELSE "",
                               !.results = @ \o
                                   [i \in DOMAIN r.results |->
                                       [commit |-> res.commit,
                                        rerun_action |-> "run",
                                        status |-> r.results[i]]],
                               !.pending = left_after(@, r),
                               !.job = r.job,
                               !.conflicts = r.conflicts,
                               !.head = base.head,
                               !.new_bases = base.new_bases]
                        /\ UNCHANGED <<history, closed, head, parked>>
           ELSE IF rerun_action = ""
           THEN /\ call' = [call EXCEPT
                       !.results = Append(@, Shown(res)),
                       !.pending = Tail(@),
                       !.job = 0,
                       !.conflicts = <<>>]
                /\ UNCHANGED <<ledger, tableExists, history, worktree, sched,
                               closed, head, parked>>
           ELSE LET done == skip_or_pick(res, on_base(res, call.head,
                                                      call.onto,
                                                      call.new_bases))
                IN  /\ call' = [call EXCEPT
                           !.results = Append(@, [Shown(res) EXCEPT
                                                !.rerun_action = done.which]),
                           !.pending = Tail(@),
                           !.job = 0,
                           !.conflicts = <<>>,
                           !.head = done.head,
                           !.new_bases = done.new_bases]
                    \* the copy is committed on HEAD's line; the history
                    \* of the revision stays as it is
                    /\ UNCHANGED <<ledger, tableExists, history, worktree,
                                   sched, closed, head, parked>>

\* The calls of schedule made between replays.
ReplayScheduleCalls ==
    AcceptedCalls({<<PathA>>}, {TRUE}, {FALSE}, {1}, {"default"}, {TRUE})

NextReplay ==
    \/ Reschedule
    \/ Rerun
    \/ ~Replaying /\ Schedule(ReplayScheduleCalls, MaxJobs - 1)

SpecReplay == InitReplay /\ [][NextReplay]_vars

\* -------------------------------------------------------------- properties
\* The job ids that have a row in the ledger.
RowIds(rows) == {rows[i].slurm_job_id : i \in DOMAIN rows}

\* The outputs the caller declared for a row: the recorded outputs without
\* the scheduler files appended at submission.
Declared(row) ==
    SubSeq(row.outputs, 1, Len(row.outputs) - Len(row.slurm_outputs))

\* The job a schedule commit stands for, and its recorded outputs.
JobOf(commit) == history[commit].record.slurm_job_id
OutputsOf(commit) == SetOf(history[commit].record.outputs)

\* The states the scheduler holds for the tasks of a job.
TaskStates(j) == SetOf(sched[j].states)

\* The last commit of a history.
Last(commits) == commits[Len(commits)]

\* finish is called on a schedule commit of the history, and sacct answers.
FinishOn(commit, c) ==
    /\ call'.op = "finish"
    /\ IsScheduleEnvelope(history[commit])
    /\ c.sacct_ok
    /\ FinishCall(commit, c)

Candidate(c) == IF c.expand THEN Globbed(worktree, c.outputs) ELSE c.outputs
Colliding(c) ==
    {ledger[i].slurm_job_id :
        i \in {k \in DOMAIN ledger :
                  SetOf(Candidate(c)) \cap SetOf(ledger[k].outputs) # {}}}

\* The call ends with an error result naming exactly the colliding ids,
\* submits nothing and changes neither ledger, history nor working tree.
Rejected(c) ==
    /\ call'.results = <<"error">>
    /\ ~call'.raised
    /\ SetOf(call'.conflicts) = Colliding(c)
    /\ call'.job = 0
    /\ UNCHANGED <<ledger, tableExists, history, sched, worktree>>

\* C2, as stated: every schedule call whose candidate outputs share a path
\* with the recorded outputs of an open row ends with an error result that
\* names every colliding job id, submits nothing, inserts no row and writes
\* no commit.
C2_CollidingCallRejected ==
    [][\A c \in ScheduleCalls :
          (call'.op = "schedule" /\ Colliding(c) # {} /\ ScheduleCall(c))
          => Rejected(c)]_vars

\* C2, amended: a schedule call that runs the conflict check (check_outputs
\* set, not a dry run, the ledger store opens) and whose candidate outputs
\* share a path with the recorded outputs of an open row ends with an error
\* result that names every colliding job id, submits nothing, inserts no row
\* and writes no commit.
C2_CheckedCollidingCallRejected ==
    [][\A c \in ScheduleCalls :
          (/\ call'.op = "schedule"
           /\ c.check_outputs /\ ~c.dry_run /\ c.db_check
           /\ Colliding(c) # {}
           /\ ScheduleCall(c))
          => Rejected(c)]_vars

\* A schedule call was refused for colliding with both of two open jobs.
C2_Witness ==
    /\ call.op = "schedule"
    /\ call.results = <<"error">>
    /\ Len(ledger) = 2
    /\ SetOf(call.conflicts) = RowIds(ledger)
    /\ Cardinality(RowIds(ledger)) = 2

\* C3, as stated: after a schedule or finish invocation that returned, a job
\* id has a row in the ledger if and only if the scheduler accepted the job
\* through schedule and finish has not finalized or force-closed it.
C3_RowIffOutstanding ==
    (call.op \in {"schedule", "finish"} /\ ~call.raised)
    => \A j \in 1..MaxJobs :
           j \in RowIds(ledger) <=> (j \in DOMAIN sched /\ j \notin closed)

C5_UnfinishedNeverClosed ==
    [][\A commit \in DOMAIN history : \A c \in FinishCalls :
          (/\ TaskStates(JobOf(commit)) \cap {"PENDING", "RUNNING"} # {}
           /\ FinishOn(commit, c))
          => /\ call'.results = <<"error">>
             /\ ~call'.raised
             /\ UNCHANGED <<ledger, tableExists, worktree, history, closed>>]_vars

\* finish, called with close_failed_jobs on an open array job with a failed
\* task and a task that still runs, has returned an error.
C5_Witness ==
    /\ call.op = "finish"
    /\ call.close_failed_jobs
    /\ call.results = <<"error">>
    /\ "RUNNING" \in SetOf(call.states)
    /\ "FAILED" \in SetOf(call.states)
    /\ call.job \in RowIds(ledger)

\* C6: when the aggregate status of a job is FAILED or CANCELLED and
\* close_failed_jobs is not set, finish returns an error result, the ledger
\* is unchanged, no file is deleted and no commit is written.
C6_FailedRefusedWithoutFlag ==
    [][\A commit \in DOMAIN history : \A c \in FinishCalls :
          (/\ ~c.close_failed_jobs
           /\ \/ TaskStates(JobOf(commit)) = {"FAILED"}
              \/ TaskStates(JobOf(commit)) \subseteq ContainsCancelled
           /\ FinishOn(commit, c))
          => /\ call'.results = <<"error">>
             /\ ~call'.raised
             /\ call'.deleted = {}
             /\ UNCHANGED <<ledger, tableExists, worktree, history, closed>>]_vars

\* finish, called without close_failed_jobs on an open job whose task
\* failed, has returned an error and the row of the job is in the ledger.
C6_Witness ==
    /\ call.op = "finish"
    /\ ~call.close_failed_jobs
    /\ call.group \in {"FAILED", "CANCELLED"}
    /\ call.results = <<"error">>
    /\ call.job \in RowIds(ledger)

\* C7, as stated: when all tasks of an open job are uniformly FAILED or
\* uniformly CANCELLED and close_failed_jobs is set, finish deletes the row
\* of the job and writes no commit to the history.
C7_ForceCloseWritesNoCommit ==
    [][\A commit \in DOMAIN history : \A c \in FinishCalls :
          (/\ c.close_failed_jobs
           /\ JobOf(commit) \in RowIds(ledger)
           /\ \/ TaskStates(JobOf(commit)) = {"FAILED"}
              \/ TaskStates(JobOf(commit)) \subseteq ContainsCancelled
           /\ FinishOn(commit, c))
          => /\ JobOf(commit) \notin RowIds(ledger')
             /\ history' = history]_vars

\* C8, as stated: when an open array job has a COMPLETED task and a task in
\* another terminal state, finish called without close_failed_jobs succeeds,
\* writes array-job-info-<id>.out, saves it under a message that contains
\* `Partially completed`, and removes the row of the job.
C8_PartialClosedWithoutFlag ==
    [][\A commit \in DOMAIN history : \A c \in FinishCalls :
          (/\ ~c.close_failed_jobs /\ c.save_ok
           /\ JobOf(commit) \in RowIds(ledger)
           /\ "COMPLETED" \in TaskStates(JobOf(commit))
           /\ TaskStates(JobOf(commit)) # {"COMPLETED"}
           /\ TaskStates(JobOf(commit)) \cap {"PENDING", "RUNNING"} = {}
           /\ FinishOn(commit, c))
          => LET j == JobOf(commit)
             IN  /\ "error" \notin SetOf(call'.results)
                 /\ call'.wrote = {ArrayInfoPath(j)}
                 /\ j \notin RowIds(ledger')
                 /\ Len(history') = Len(history) + 1
                 /\ <<"Processed batch job", j, "Partially completed">>
                        \in SetOf(Last(history').message)
                 /\ ArrayInfoPath(j) \in Last(history').paths]_vars

\* The aggregate of C9: the common state; else PARTIALLY COMPLETED when a
\* task is COMPLETED; else MULTI_CAUSE_FAILURE.
Aggregate(states) ==
    IF Cardinality(states) = 1 THEN CHOOSE s \in states : TRUE
    ELSE IF "COMPLETED" \in states THEN "PARTIALLY COMPLETED"
    ELSE "MULTI_CAUSE_FAILURE"

\* C9, as stated, for tasks that have all ended: the aggregate status the
\* resolver returns is the common state of the tasks, else PARTIALLY
\* COMPLETED when at least one task is COMPLETED, else MULTI_CAUSE_FAILURE.
C9_AggregateRule ==
    (/\ call.op = "finish"
     /\ call.states # <<>>
     /\ SetOf(call.states) \cap {"PENDING", "RUNNING"} = {})
    => call.group = Aggregate(SetOf(call.states))

\* C10, as stated: finish called again on the schedule commit of a job that
\* finish has already closed under a FINISH commit reports nothing to
\* finish, writes no commit, writes no file and does not fail.
C10_SecondFinishNoOp ==
    [][\A commit \in DOMAIN history : \A c \in FinishCalls :
          (/\ c.save_ok
           /\ JobOf(commit) \in closed
           /\ JobOf(commit) \notin RowIds(ledger)
           /\ \E k \in DOMAIN history :
                 /\ history[k].kind = "FINISH"
                 /\ history[k].record.slurm_job_id = JobOf(commit)
           /\ FinishOn(commit, c))
          => /\ ~call'.raised
             /\ SetOf(call'.results) \subseteq {"notneeded"}
             /\ call'.wrote = {}
             /\ UNCHANGED <<ledger, worktree, history>>]_vars

\* C11, as stated: after finish has returned from closing a job whose tasks
\* are all COMPLETED, so that the row of the job is gone, the history holds a
\* FINISH commit for that job.
C11_RowGoneOnlyWithFinishCommit ==
    (/\ call.op = "finish"
     /\ ~call.raised
     /\ call.group = "COMPLETED"
     /\ call.job \in closed
     /\ call.job \notin RowIds(ledger))
    => \E k \in DOMAIN history :
           /\ history[k].kind = "FINISH"
           /\ history[k].record.slurm_job_id = call.job

\* C12, as stated: when sbatch exits with a non-zero status or prints no
\* `Submitted batch job <id>` line, schedule inserts no row and writes no
\* commit.
C12_SubmissionFailureRollsBack ==
    [][\A c \in SubmitCalls :
          (/\ call'.op = "schedule"
           /\ ~c.accepted \/ c.exit_code # 0
           /\ ScheduleCall(c))
          => /\ ledger' = ledger
             /\ history' = history]_vars

\* The scheduler output files of a submitted job, as the row records them.
SchedulerFiles(job_id, c) ==
    LET slurm == get_slurm_output_files(job_id, c.ntasks, c.stdio)
    IN  Append(slurm.paths, slurm.env)

\* C13, as stated: when no open job conflicts and the scheduler accepts the
\* command with id J, schedule appends exactly one row, with slurm_job_id J
\* and with outputs the declared outputs followed by the scheduler output
\* files, and leaves the other rows as they are.
C13_AcceptedJobRecorded ==
    [][\A c \in SubmitCalls :
          (/\ call'.op = "schedule"
           /\ call'.job # 0
           /\ Colliding(c) = {}
           /\ ScheduleCall(c))
          => /\ Len(ledger') = Len(ledger) + 1
             /\ SubSeq(ledger', 1, Len(ledger)) = ledger
             /\ Last(ledger').slurm_job_id = call'.job
             /\ Last(ledger').outputs
                    = c.outputs \o SchedulerFiles(call'.job, c)]_vars

\* C14: every envelope schedule produces has kind RESCHEDULE when rerun_info
\* is given and kind SCHEDULE otherwise, and its message contains `Submitted
\* batch job <id>: Pending` with the id the scheduler gave this submission.
C14_EnvelopeKindAndMarker ==
    [][\A c \in SubmitCalls :
          (/\ call'.op = "schedule"
           /\ Len(ledger') = Len(ledger) + 1
           /\ ScheduleCall(c))
          => LET envelope == Last(ledger').message
             IN  /\ envelope.kind = "RESCHEDULE" <=> c.rerun_info # NoRerun
                 /\ envelope.kind = "SCHEDULE" <=> c.rerun_info = NoRerun
                 /\ SubmittedLine(call'.job) \in SetOf(envelope.message)
                 /\ call'.job = Len(sched')
                 /\ envelope.record.slurm_job_id = call'.job]_vars

\* A replayed submission with a message of the caller has stored its
\* RESCHEDULE envelope, whose message carries the caller's line and the
\* Submitted line of the new job.
C14_Witness ==
    /\ call.op = "schedule"
    /\ call.message = UserNote
    /\ Len(ledger) = 1
    /\ ledger[1].message.kind = "RESCHEDULE"
    /\ ledger[1].message.message[1] = UserNote[1]
    /\ SubmittedLine(call.job) \in SetOf(ledger[1].message.message)

\* C15, as stated: decoding the commit message text that schedule or finish
\* produces for a job record R and a caller's message M returns exactly
\* (M, R).
C15_EnvelopeRoundTrip ==
    /\ (/\ call.op = "schedule"
        /\ call.message # NoMessage
        /\ call.job # 0
        /\ ledger # <<>>
        /\ Last(ledger).slurm_job_id = call.job)
       => get_schedule_info(EnvelopeText(Last(ledger).message), TRUE)
              = Decoded(TextOf(call.message), Last(ledger).message.record)
    /\ (/\ call.op = "finish"
        /\ call.message # NoMessage
        /\ call.results = <<"ok">>
        /\ Last(history).kind = "FINISH")
       => get_finish_info(EnvelopeText(Last(history)))
              = Decoded(TextOf(call.message), Last(history).record)

\* C16, as stated: decoding a commit message returns the empty result when
\* the header and the marker lines of the requested kind are absent; raises
\* the malformed-envelope error (ValueError) when they are present and the
\* payload is not valid JSON, names a record file that does not exist, or
\* resolves to something without a command; and returns the message and
\* the record otherwise.
C16_DecodeOutcomes ==
    call.op \in {"get_schedule_info", "get_finish_info"} =>
        LET parts == call.parts
            marked == parts.kind \in call.kinds /\ parts.frame = "full"
            is_json == Len(parts.payload) = 1 /\ parts.payload[1][1] = "json"
            value == parts.payload[1]
            missing == value[2] = "str" /\ value[3] \notin DOMAIN SidecarFiles
            resolved == IF value[2] = "str" THEN SidecarFiles[value[3]]
                        ELSE value[3]
            no_cmd == CASE value[2] = "num" -> TRUE
                        [] value[2] = "list" -> "cmd" \notin SetOf(resolved)
                        [] OTHER -> "cmd" \notin DOMAIN resolved
        IN  IF ~marked THEN call.result = NoEnvelope
            ELSE IF ~is_json \/ missing \/ no_cmd
                THEN call.result = Raises("ValueError")
            ELSE /\ call.result.outcome = "ok"
                 /\ call.result.record = resolved

\* C17: a first-time schedule call (no rerun_info) with a wildcard among its
\* outputs and without allow_wildcard_outputs yields `impossible` and changes
\* nothing: the working tree, the scheduler's jobs, the ledger and the
\* history stay as they are.
C17_WildcardOutputsRejected ==
    [][\A c \in SubmitCalls :
          (/\ call'.op = "schedule"
           /\ c.rerun_info = NoRerun
           /\ ~c.allow_wildcard_outputs
           /\ Star \in SetOf(c.outputs)
           /\ ScheduleCall(c))
          => /\ call'.results = <<"impossible">>
             /\ call'.job = 0
             /\ UNCHANGED <<worktree, sched, ledger, tableExists, history>>]_vars

\* A call with a wildcard output has been refused while a job is open.
C17_Witness ==
    /\ call.op = "schedule"
    /\ call.results = <<"impossible">>
    /\ Len(ledger) = 1
    /\ Len(sched) = 1

\* The record of the commit names no outputs and the caller passes none.
NoOutputs(commit, c) ==
    /\ IsScheduleEnvelope(history[commit])
    /\ c.outputs = <<>>
    /\ history[commit].record.outputs = <<>>

\* C18, as stated: when the recorded outputs of the job and the outputs the
\* caller passes are both empty, finish reports status `impossible` and
\* deletes no file, deletes no row and writes no commit.
C18_NoOutputsImpossible ==
    [][\A commit \in DOMAIN history : \A c \in ForeignFinishCalls :
          (/\ call'.op = "finish"
           /\ NoOutputs(commit, c)
           /\ FinishCall(commit, c))
          => /\ call'.results = <<"impossible">>
             /\ UNCHANGED <<worktree, ledger, history>>]_vars

\* The resolver fails for the job of the commit: its id is no number, sacct
\* fails, or sacct prints no task for it.
ResolverFails(commit, c) ==
    /\ IsScheduleEnvelope(history[commit])
    /\ c.outputs \o history[commit].record.outputs # <<>>
    /\ \/ history[commit].record.slurm_job_id < 0
       \/ history[commit].record.slurm_job_id \notin DOMAIN sched
       \/ ~c.sacct_ok

\* C19: when the resolver fails during finish, the error reaches the caller
\* and the ledger, the working tree and the history are unchanged.
C19_ResolverFailureMutatesNothing ==
    [][\A commit \in DOMAIN history : \A c \in ForeignFinishCalls :
          (/\ call'.op = "finish"
           /\ ResolverFails(commit, c)
           /\ FinishCall(commit, c))
          => /\ call'.raised
             /\ call'.error \in {"ValueError", "RuntimeError"}
             /\ call'.results = <<>>
             /\ UNCHANGED <<worktree, ledger, history, closed>>]_vars

\* The resolver has failed on a job the scheduler does not know while the
\* ledger holds the row of an open job.
C19_Witness ==
    /\ call.op = "finish"
    /\ call.raised
    /\ call.error = "ValueError"
    /\ call.job = UnknownJob
    /\ ledger # <<>>

\* The last step was a schedule or finish invocation with a branch active.
InvokedOnBranch == call'.op \in {"schedule", "finish"} /\ head \in Branches

\* The jobs the conflict check reported that are open in the store of
\* branch b and not in the store of the active branch.
ReportedOnlyIn(b) ==
    IF call'.op = "schedule"
    THEN (SetOf(call'.conflicts) \cap RowIds(StoreOf(b).ledger))
             \ RowIds(ledger)
    ELSE {}

Corresponding(a, b) == {a, b} = {"main", AdjustedMain}

C21_OneRowPerJob ==
    \A i, j \in DOMAIN ledger :
        ledger[i].slurm_job_id = ledger[j].slurm_job_id => i = j

\* The states the scheduler reports for the tasks of a row's job.
StatesOfRow(row) == SetOf(sched[row.slurm_job_id].states)

\* C22, as stated: finish without a commit works over the open jobs: after
\* it every row whose tasks are all COMPLETED is gone and every row with a
\* PENDING or RUNNING task remains; with an empty ledger it yields no `ok`
\* and changes nothing.
C22_FinishWithoutCommit ==
    [][\A c \in LedgerFinishCalls :
          (/\ call'.op = "finish"
           /\ FinishCall(0, c))
          => /\ \A i \in DOMAIN ledger :
                    StatesOfRow(ledger[i]) = {"COMPLETED"}
                        => ledger[i].slurm_job_id \notin RowIds(ledger')
             /\ \A i \in DOMAIN ledger :
                    StatesOfRow(ledger[i]) \cap {"PENDING", "RUNNING"} # {}
                        => ledger[i].slurm_job_id \in RowIds(ledger')
             /\ ledger = <<>>
                    => /\ "ok" \notin SetOf(call'.results)
                       /\ UNCHANGED <<ledger, worktree, history>>]_vars

\* The indices an item of a specifier stands for, in increasing order.
IndicesOf(item) ==
    LET step == IF item.s = 0 THEN 1 ELSE item.s
        OnStep(i) == (i - item.a) % step = 0
    IN  SelectSeq([k \in 1..(item.b - item.a + 1) |-> item.a + k - 1], OnStep)

\* The names <job_id>_<i> of the indices of an item.
NamesOfItem(job_id, item) ==
    [k \in 1..Len(IndicesOf(item)) |-> <<job_id, <<Num(IndicesOf(item)[k])>>>>]

\* C28: for a specifier of comma-separated single indices and ranges a-b or
\* a-b:s, with or without a %throttle, generate_array_job_names returns, in
\* the order of the specifier, the names <job_id>_<i> of every single index
\* and of i = a, a+s, ... <= b of every range.
C28_ArrayNames ==
    call.op = "generate_array_job_names" =>
        call.names =
            NamesOfItem(call.job_id, call.items[1])
                \o (IF Len(call.items) > 1
                    THEN NamesOfItem(call.job_id, call.items[2]) ELSE <<>>)

\* The specifier 1-5:2 followed by the single index 4 has given the names
\* _1, _3, _5, _4.
C28_Witness ==
    /\ call.op = "generate_array_job_names"
    /\ call.items = <<[kind |-> "range", a |-> 1, b |-> 5, s |-> 2],
                      [kind |-> "single", a |-> 4, b |-> 4, s |-> 0]>>
    /\ call.names = <<<<call.job_id, <<Num(1)>>>>, <<call.job_id, <<Num(3)>>>>,
                      <<call.job_id, <<Num(5)>>>>, <<call.job_id, <<Num(4)>>>>>>

\* C29, as stated: a schedule call with dry_run set yields exactly one
\* result, with status `ok`, and leaves the working tree, the scheduler,
\* the ledger and the history as they are.
C29_DryRunOk ==
    [][\A c \in DryRunCalls :
          (/\ call'.op = "schedule"
           /\ ScheduleCall(c))
          => /\ call'.results = <<"ok">>
             /\ UNCHANGED <<worktree, sched, ledger, tableExists, history>>]_vars

\* The call is refused for a wildcard among its outputs.
WildcardRefused(c) ==
    /\ c.rerun_info = NoRerun
    /\ ~c.allow_wildcard_outputs
    /\ Star \in SetOf(c.outputs)

\* C29, amended: a schedule call with dry_run set yields exactly one result,
\* `impossible` when it is refused for a wildcard output and `ok` otherwise,
\* and leaves the working tree, the scheduler, the ledger and the history as
\* they are.
C29_DryRunOkUnlessRefused ==
    [][\A c \in DryRunCalls :
          (/\ call'.op = "schedule"
           /\ ScheduleCall(c))
          => /\ call'.results = IF WildcardRefused(c) THEN <<"impossible">>
                                ELSE <<"ok">>
             /\ call'.job = 0
             /\ ~call'.raised
             /\ UNCHANGED <<worktree, sched, ledger, tableExists, history>>]_vars

\* A dry run with a message of the caller has answered `ok` while a job is
\* open.
C29_Witness ==
    /\ call.op = "schedule"
    /\ call.message = UserNote
    /\ call.results = <<"ok">>
    /\ call.job = 0
    /\ Len(ledger) = 1
    /\ Len(sched) = 1

\* A step in which reschedule reads a range and settles what to replay.
Plans == ~Replaying /\ call'.op = "reschedule"

\* The disposition the finish message of a revision records, "" when the
\* revision has no finish envelope of this dataset.
DispositionOf(rev) ==
    LET decoded == get_finish_info(history[rev].text)
    IN  IF decoded.outcome # "ok" THEN ""
        ELSE IF decoded.record.dsid # dset_id THEN ""
        ELSE LinesOf(decoded.message)[1][3]

\* The revisions a plan has a record with a given action for.
PlannedAs(plan, action) ==
    {plan[i].commit : i \in {j \in DOMAIN plan : plan[j].rerun_action = action}}

\* C23, as stated: when reschedule reads a range without failing, a commit
\* whose finish message records a disposition other than Completed is in
\* the replay plan as a `run` record if with_failed_jobs is set, and is not
\* in the plan at all if it is not set.
C23_FailedJobsFiltered ==
    [][(Plans /\ call'.raised = "")
       => \A rev \in (call'.since + 1)..Len(history) :
              DispositionOf(rev) \notin {"", "Completed"}
                  => IF call'.with_failed_jobs
                     THEN rev \in PlannedAs(call'.plan, "run")
                     ELSE \A i \in DOMAIN call'.plan :
                              call'.plan[i].commit # rev]_vars

\* C24: a reschedule call with report set changes nothing, whatever the
\* range and the other arguments: no commit is checked out, picked, merged
\* or written, nothing is submitted and the ledger is as it was; no record
\* is left to act on, and what the call returns is the classification of
\* the commits of the range.
C24_ReportReadOnly ==
    [][(call'.op = "reschedule" /\ call'.report)
       => /\ call'.pending = <<>>
          /\ call'.results = call'.plan
          /\ UNCHANGED <<ledger, tableExists, history, worktree, sched,
                         closed, head, parked>>]_vars

\* A report over a range with a commit to run again and a commit of another
\* dataset, made while a job is open.
C24_Witness ==
    /\ call.op = "reschedule" /\ call.report /\ call.raised = ""
    /\ PlannedAs(call.results, "run") # {}
    /\ PlannedAs(call.results, "skip-or-pick") # {}
    /\ ledger # <<>>

\* A revision whose message has the markers of a finish envelope and does
\* not decode.
Malformed(rev) ==
    get_finish_info(history[rev].text).outcome \notin {"ok", "none"}

C26_ReplayConflictLocal ==
    [][(Replaying /\ call'.op = "reschedule" /\ call'.conflicts # <<>>)
       => /\ call'.results =
                 Append(call.results, [commit |-> Head(call.pending).commit,
                                       rerun_action |-> "run",
                                       status |-> "error"])
          /\ call'.pending = Tail(call.pending)
          /\ call'.raised = ""
          /\ UNCHANGED <<ledger, tableExists, history, worktree, sched,
                         closed, head, parked>>]_vars

\* A replay whose first commit was submitted again, with its row in the
\* ledger, and whose second commit was rejected for its outputs.
C26_Witness ==
    /\ call.op = "reschedule" /\ call.conflicts # <<>>
    /\ Len(call.results) = 2
    /\ call.results[1].status = "ok" /\ call.results[1].rerun_action = "run"
    /\ call.results[2].status = "error"
    /\ \E i \in DOMAIN ledger :
           /\ ledger[i].chain = <<Hexsha(call.results[1].commit)>>
           /\ ledger[i].slurm_job_id \in SetOf(call.conflicts)

\* The revisions of a range whose finish envelope records the id of another
\* dataset.
OtherDatasetCommits(since) ==
    {rev \in (since + 1)..Len(history) :
        LET decoded == get_finish_info(history[rev].text)
        IN  decoded.outcome = "ok" /\ decoded.record.dsid # dset_id}

NoEnvelopeIn(since) ==
    \A rev \in (since + 1)..Len(history) :
        get_finish_info(history[rev].text).outcome = "none"

\* C30: when no commit of the range carries an envelope to replay,
\* reschedule, in report mode or not, yields exactly one result, whose
\* status is impossible, and changes nothing in the history, the scheduler,
\* the ledger or the worktree: neither when it reads the range nor when
\* _rerun passes the result on.
C30_NothingToReplay ==
    [][/\ (Plans /\ NoEnvelopeIn(call'.since))
           => /\ call'.raised = ""
              /\ call'.plan =
                     <<[commit |-> 0, rerun_action |-> "",
                        status |-> "impossible"]>>
              /\ Len(call'.results) + Len(call'.pending) = 1
              /\ UNCHANGED <<ledger, tableExists, history, worktree, sched,
                             closed, head, parked>>
       /\ (/\ Replaying /\ call'.op = "reschedule"
           /\ NoEnvelopeIn(call.since))
           => /\ call'.results = call.plan
              /\ call'.pending = <<>>
              /\ UNCHANGED <<ledger, tableExists, history, worktree, sched,
                             closed, head, parked>>]_vars

\* A replay (not a report) over two commits without an envelope, made while
\* a job is open, that has yielded its one result.
C30_Witness ==
    /\ call.op = "reschedule" /\ ~call.report /\ call.pending = <<>>
    /\ call.since = 0 /\ Len(history) = 2 /\ NoEnvelopeIn(0)
    /\ Len(call.results) = 1 /\ call.results[1].status = "impossible"
    /\ ledger # <<>>

\* Whether a revision's message is an envelope of one of `kinds` recorded
\* for the active dataset.
EnvelopeOfKinds(rev, kinds) ==
    LET decoded == envelope_info(kinds, history[rev].text)
    IN  decoded.outcome = "ok" /\ decoded.record.dsid = dset_id

\* Whether the filter on failed jobs takes a revision out of the plan.
FilteredOut(rev, with_failed_jobs) ==
    LET decoded == envelope_info({"FINISH"}, history[rev].text)
    IN  ~with_failed_jobs /\ parse_job_status(decoded.message) = "True"

RecordOf(rev) == get_finish_info(history[rev].text).record

\* A step of schedule or of a replay that writes a row into the ledger.
WritesRow == Len(ledger') = Len(ledger) + 1

\* The step is the replay's submission of the `run` record at the head of
\* its plan.
ReplaysRun ==
    /\ Replaying
    /\ "commit" \in DOMAIN Head(call.pending)
    /\ Head(call.pending).rerun_action = "run"

\* C32: the chain is append-only. The row a first submission writes has an
\* empty chain; the row the replay of a `run` commit writes has the chain of
\* the commit's record followed by the commit's hash; and no step changes
\* the chain of a row that is in the ledger.
C32_ChainAppendOnly ==
    [][/\ \A i \in DOMAIN ledger :
              i \in DOMAIN ledger' => ledger'[i].chain = ledger[i].chain
       /\ (WritesRow /\ ~Replaying)
              => ledger'[Len(ledger')].chain = <<>>
       /\ (WritesRow /\ ReplaysRun)
              => LET rev == Head(call.pending).commit
                 IN  ledger'[Len(ledger')].chain
                         = RecordOf(rev).chain \o <<Hexsha(rev)>>]_vars

\* The replay of a commit whose job was itself a replay has written its row:
\* the chain has the earlier commit first and the replayed commit last.
C32_Witness ==
    /\ call.op = "reschedule" /\ call.results # <<>>
    /\ \E i \in DOMAIN ledger : \E rev \in DOMAIN history :
           /\ EnvelopeOfKinds(rev, {"FINISH"})
           /\ RecordOf(rev).chain = <<"c0">>
           /\ ledger[i].chain = <<"c0", Hexsha(rev)>>


\* C33: a replay strips the old scheduler outputs. The outputs of the row a
\* replay writes for a `run` commit (those handed to the scheduling
\* operation, followed by the new job's scheduler files) hold none of the
\* scheduler files listed in the record of the commit.
C33_OldSchedulerOutputsStripped ==
    [][(WritesRow /\ ReplaysRun)
          => LET rev == Head(call.pending).commit
             IN  SetOf(ledger'[Len(ledger')].outputs)
                     \cap SetOf(RecordOf(rev).slurm_run_outputs) = {}]_vars


\* ----------------------------------------------------- the ledger's handles
\* A connection that was opened and not closed is released when the
\* interpreter collects the object, at a time the language leaves open:
\* `collected` says whether that happened before the invocation ended.
NotReleased(opened, collected) == IF opened /\ ~collected THEN 1 ELSE 0

\* schedule.py check_output_conflict, lines 869-889: the connection is
\* opened and the function returns on every path without con.close().
check_output_conflict_handles(db_ok, collected) ==
    NotReleased(connect_to_database(db_ok) = "handle", collected)

\* schedule.py add_to_database, lines 1041-1043 and 1102-1103: no handle
\* without a connection, con.close() after the commit with one.
add_to_database_handles(db_ok) ==
    IF connect_to_database(db_ok) = "handle" THEN 1 - 1 ELSE 0

\* finish.py remove_from_database, lines 566-576: con.close() follows the
\* DELETE, which raises in a store without the table.
remove_from_database_handles(exists, collected) ==
    IF exists THEN 1 - 1 ELSE NotReleased(TRUE, collected)

\* finish.py get_scheduled_commits, lines 240-250: the connection is opened,
\* the SELECT of the column commit_id raises, and nothing closes it.
get_scheduled_commits_handles(collected) == NotReleased(TRUE, collected)

\* schedule.py run_command: the handles open when the call c returns.
\* Lines 568-580 and 692-705 return before the store is opened; the conflict
\* check (707-728) opens it when check_outputs is set; add_to_database (813)
\* is reached once the job was accepted and described.
run_command_handles(c, collected) ==
    IF c.rerun_info = NoRerun /\ ~c.allow_wildcard_outputs
       /\ HasWildcard(c.outputs)
        THEN 0
    ELSE IF c.dry_run THEN 0
    ELSE (IF c.check_outputs
          THEN check_output_conflict_handles(c.db_check, collected) ELSE 0)
         + (IF (c.check_outputs => connect_to_database(c.db_check) = "handle")
               /\ c.accepted /\ c.scontrol_ok
            THEN add_to_database_handles(c.db_insert) ELSE 0)

\* finish.py Finish.__call__ and finish_cmd: the handles open when the call
\* returns, for the result r of the call. remove_from_database (442) is
\* reached by the calls that close the job and by those its DELETE ends.
finish_handles(commit, r, collected) ==
    IF commit = 0 THEN get_scheduled_commits_handles(collected)
    ELSE IF r.closes THEN remove_from_database_handles(TRUE, collected)
    ELSE IF r.error = "OperationalError"
        THEN remove_from_database_handles(FALSE, collected)
    ELSE 0

\* One invocation of schedule, with the count of the handles it leaves.
ScheduleCounted ==
    \E c \in JobScheduleCalls : \E collected \in BOOLEAN :
        LET r == run_command(c)
        IN  /\ Len(sched) < 1 \/ Plain(c)
            /\ Len(r.sched) <= 1
            /\ ledger' = r.ledger
            /\ tableExists' = r.tableExists
            /\ worktree' = r.worktree
            /\ sched' = r.sched
            /\ call' = [op |-> "schedule", job |-> r.job,
                        results |-> r.results, raised |-> r.raised,
                        conflicts |-> r.conflicts,
                        check_outputs |-> c.check_outputs,
                        handles |-> run_command_handles(c, collected)]
            /\ UNCHANGED <<history, closed, head, parked>>

\* One invocation of finish, with the count of the handles it leaves.
FinishCounted ==
    \E commit \in {0} \cup DOMAIN history : \E collected \in BOOLEAN :
    \E c \in LedgerFinishCalls :
        LET r == IF commit = 0
                 THEN [ledger |-> ledger, worktree |-> worktree,
                       history |-> history, job |-> 0, results |-> <<>>,
                       raised |-> TRUE, error |-> "OperationalError",
                       closes |-> FALSE]
                 ELSE finish_cmd(commit, c)
        IN  /\ commit = 0 => ~c.close_failed_jobs
            /\ ledger' = r.ledger
            /\ worktree' = r.worktree
            /\ history' = r.history
            /\ closed' = IF r.closes THEN closed \cup {r.job} ELSE closed
            /\ call' = [op |-> "finish", job |-> r.job,
                        results |-> r.results, raised |-> r.raised,
                        error |-> r.error,
                        handles |-> finish_handles(commit, r, collected)]
            /\ UNCHANGED <<tableExists, sched, head, parked>>

NextHandles ==
    \/ ScheduleCounted
    \/ TaskStep(NextStates)
    \/ CommitEnvelope
    \/ FinishCounted

SpecHandles == Init /\ [][NextHandles]_vars

\* C34: the ledger's handles are always released. When an invocation of
\* schedule or of finish has ended, with results or with an exception, no
\* connection it opened is still open.
C34_HandlesReleased ==
    call.op \in {"schedule", "finish"} => call.handles = 0


\* C35: the ledger's delete is idempotent. Deleting a job id is not an
\* error, also in a store into which no job was ever inserted; it leaves a
\* ledger without a row of that id unchanged; and deleting the id once more
\* changes nothing.
C35_DeleteIdempotent ==
    [][call'.op = "delete"
          => /\ call'.error = ""
             /\ call'.job \notin RowIds(ledger) => ledger' = ledger
             /\ remove_from_database(ledger', [slurm_job_id |-> call'.job])
                    = ledger']_vars


\* The k-th commit of the history is reachable from the commit `at`.
Reachable(k, at) == \E n \in 0..Len(at) : SubSeq(at, 1, n) = Line(k)

\* No commit of the history is on the line of `at` twice, as itself and as a
\* copy or as two copies.
NoTwice(at) ==
    /\ \A i, j \in DOMAIN at : at[i] = at[j] => i = j
    /\ \A i, j \in DOMAIN at : at[i] # Picked(at[j])

\* The step is the replay's turn for a skip-or-pick record at the head of
\* its plan.
ActsOnSkipOrPick ==
    /\ Replaying
    /\ "commit" \in DOMAIN Head(call.pending)
    /\ Head(call.pending).rerun_action = "skip-or-pick"
    /\ call'.op = "reschedule"
    /\ Len(call'.results) = Len(call.results) + 1

\* C36: skip versus pick. A skip-or-pick commit is cherry-picked only onto
\* a replay head that does not reach it, and its copy is then the new head;
\* it is skipped, and the head left where it was, when the head reaches it;
\* so the line of the replay head never has a commit twice.
C36_SkipVersusPick ==
    [][ActsOnSkipOrPick
          => LET k == Head(call.pending).commit
                 out == call'.results[Len(call'.results)].rerun_action
                 n == Len(call'.head)
             IN  /\ out \in {"skip", "pick"}
                 /\ out = "pick"
                        => /\ n > 0 /\ call'.head[n] = Picked(k)
                           /\ ~Reachable(k, SubSeq(call'.head, 1, n - 1))
                 /\ out = "skip" => call'.head = call.head
                 /\ (Reachable(k, call.head)
                        /\ Head(call.pending).parents[1]
                               \notin DOMAIN call.new_bases)
                        => out = "skip"
                 /\ NoTwice(call'.head)]_vars

\* A replay with HEAD on an earlier commit than the revision's tip has
\* skipped nothing that HEAD did not reach: its first record was submitted
\* again and its second, which HEAD did not reach, was cherry-picked.
C36_Witness ==
    /\ call.op = "reschedule" /\ call.pending = <<>>
    /\ call.onto = Line(1)
    /\ Len(call.results) = 2
    /\ call.results[1].rerun_action = "run"
    /\ call.results[2].rerun_action = "pick"
    /\ call.head = <<1, Picked(2)>>


\* The StdOut file of task t of a job the scheduler knows.
StdoutOfTask(job, t) ==
    get_slurm_output_files(job, Len(sched[job].states),
                           sched[job].stdio).paths[t]

\* C37: only failing tasks lose their scheduler files. The files a call of
\* finish deleted from the working tree hold no StdOut file of a task that
\* sacct reported COMPLETED.
C37_CompletedTasksKeepFiles ==
    (call.op = "finish" /\ call.job \in DOMAIN sched /\ call.states # <<>>)
        => \A t \in DOMAIN call.states :
               call.states[t] = "COMPLETED"
                   => StdoutOfTask(call.job, t) \notin call.deleted


\* The jobs the scheduler accepted that no FINISH commit of the history
\* reports.
JobsWithoutFinish ==
    {j \in DOMAIN sched :
        \A k \in DOMAIN history :
            history[k].kind = "FINISH" => history[k].record.slurm_job_id # j}

\* C38: the incomplete-job counter. After any sequence of schedule and
\* finish operations, extract_incomplete_jobs returns the number of
\* scheduled jobs that have no finish commit, which is never negative.
C38_IncompleteJobCounter ==
    /\ extract_incomplete_jobs(history) = Cardinality(JobsWithoutFinish)
    /\ extract_incomplete_jobs(history) >= 0


\* ------------------------------------------------- schedule, step by step
\* Two invocations of schedule on one branch, as two processes of the
\* operating system: nothing in run_command holds the store between the
\* conflict check and the insert, so the steps of one may fall between the
\* steps of the other. The position of each is kept in the call record.
Procs == {1, 2}
Starting == [pc |-> "start", outputs |-> <<>>, job |-> 0, conflicts |-> <<>>]

InitRace ==
    /\ ledger = <<>>
    /\ tableExists = FALSE
    /\ history = <<>>
    /\ worktree = [p \in Paths |-> "absent"]
    /\ sched = <<>>
    /\ call = [op |-> "schedules", procs |-> [p \in Procs |-> Starting]]
    /\ closed = {}
    /\ head = "main"
    /\ parked = [name \in DbNames |-> NoStore]

\* schedule.py run_command, lines 707-728: the conflict check of the
\* outputs the caller declared, which ends the invocation when it finds a
\* row.
CheckStep ==
    \E p \in Procs : \E outputs \in NamedOutputs :
        LET conflicts == check_output_conflict(ledger, tableExists, outputs)
        IN  /\ call.procs[p].pc = "start"
            /\ call' = [call EXCEPT !.procs[p] =
                           [pc |-> IF conflicts # <<>> THEN "rejected"
                                   ELSE "checked",
                            outputs |-> outputs, job |-> 0,
                            conflicts |-> conflicts]]
            /\ UNCHANGED <<ledger, tableExists, history, worktree, sched,
                           closed, head, parked>>

\* schedule.py run_command, lines 731-741: sbatch accepts the job, and the
\* scheduler's files are named after its id.
SubmitStep ==
    \E p \in Procs :
        LET job_id == Len(sched) + 1
            slurm == get_slurm_output_files(job_id, 1, "default")
        IN  /\ call.procs[p].pc = "checked"
            /\ Len(sched) < MaxJobs
            /\ sched' = Append(sched,
                               [states |-> <<"PENDING">>,
                                stdio |-> "default",
                                outs |-> FilesOf(call.procs[p].outputs)])
            /\ worktree' = [worktree EXCEPT ![slurm.env] = "dirty"]
            /\ call' = [call EXCEPT !.procs[p].pc = "submitted",
                                    !.procs[p].job = job_id]
            /\ UNCHANGED <<ledger, tableExists, history, closed, head,
                           parked>>

\* schedule.py run_command, lines 765-821: the envelope is composed and
\* add_to_database writes the row of the job.
InsertStep ==
    \E p \in Procs :
        LET job_id == call.procs[p].job
            slurm == get_slurm_output_files(job_id, 1, "default")
            slurm_outputs == Append(slurm.paths, slurm.env)
            run_info == [cmd |-> "sbatch", chain |-> <<>>,
                         outputs |-> call.procs[p].outputs \o slurm_outputs,
                         slurm_run_outputs |-> slurm_outputs,
                         slurm_job_id |-> job_id]
            msg == [kind |-> schedule_msg(NoRerun),
                    message |-> compose_message(NoMessage, job_id, NoRerun),
                    record |-> run_info]
        IN  /\ call.procs[p].pc = "submitted"
            /\ ledger' = add_to_database(ledger, run_info, msg)
            /\ tableExists' = TRUE
            /\ call' = [call EXCEPT !.procs[p].pc = "done"]
            /\ UNCHANGED <<history, worktree, sched, closed, head, parked>>

NextRace ==
    \/ CheckStep
    \/ SubmitStep
    \/ InsertStep

SpecRace == InitRace /\ [][NextRace]_vars

\* C39: no race on the conflict check. Of two invocations of schedule on
\* one branch whose declared outputs overlap, with their steps interleaved,
\* at most one inserts a row into the ledger.
C39_AtMostOneInserts ==
    \A p, q \in Procs :
        (/\ p # q
         /\ call.procs[p].pc = "done" /\ call.procs[q].pc = "done")
            => SetOf(call.procs[p].outputs)
                   \cap SetOf(call.procs[q].outputs) = {}


\* C40: no orphaned submissions. Whenever a call of schedule returns after
\* the scheduler accepted its job, the ledger has a row for that job: a
\* store that cannot be opened or written is found out before the command
\* is submitted, with or without the conflict check.
C40_NoOrphanedSubmission ==
    [][(call'.op = "schedule" /\ ~call'.raised /\ Len(sched') = Len(sched) + 1)
          => /\ call'.job = Len(sched')
             /\ call'.job \in RowIds(ledger')]_vars

====
